---- MODULE Spec2Model ----
(***************************************************************************)
(* pi-render-md: the interactive patch of pi's Markdown component.         *)
(*                                                                         *)
(* The model follows extensions/render-md.ts: the process-wide PatchState  *)
(* (revision, options), the per-instance flags kept on each Markdown       *)
(* instance, the theme objects whose function slots are wrapped, the       *)
(* /render-md command and settings panel, session_start, and the session   *)
(* log that carries the persisted settings.                                *)
(*                                                                         *)
(* Strings are sequences of one-character strings; "nl", "cr", "sp", "tab" *)
(* and "bt" stand for the line feed, carriage return, space, tab and       *)
(* backtick.                                                               *)
(***************************************************************************)
EXTENDS Integers, Sequences, FiniteSets, TLC

VARIABLES
    hasUI,      \* ctx.hasUI of this process
    flags,      \* the startup flags pi.getFlag returns
    started,    \* a session_start has run
    patched,    \* Markdown.prototype carries the patched methods
    revision,   \* PatchState.revision
    options,    \* PatchState.options (the current options object)
    panelOpen,  \* the settings panel of /render-md is open
    log,        \* sessionManager.getBranch(): the entries of the session
    pending,    \* snapshots handed to pi.appendEntry and not yet in the log
    commits,    \* how many times commit() has run in this process
    inst,       \* the Markdown instances
    theme,      \* the theme objects
    stateKeys,  \* the keys of globalThis that hold the patch state
    originals,  \* PatchState.originals: what each stored method refers to
    cache,      \* per instance: what its cached render output was computed from
    themeOf,    \* instance.theme
    hist,       \* per instance: bookkeeping of what was observed
    last        \* the operation that produced this state

vars == <<hasUI, flags, started, patched, revision, options, panelOpen, log,
          pending, commits, stateKeys, originals, inst, theme, cache,
          themeOf, hist, last>>

----------------------------------------------------------------------------
(* Bounds *)

\* patch applications and commits stop once the revision reaches this value
MaxRevision == 4

\* the live edits committed in one run of the process
MaxCommits == 1

----------------------------------------------------------------------------
(* Strings *)

WS == {"nl", "cr", "sp", "tab"}

IsWs(c) == c \in WS

\* String.prototype.toLowerCase, on the letters the inputs use
Lower(c) ==
    CASE c = "M" -> "m" [] c = "D" -> "d" [] c = "O" -> "o" [] c = "N" -> "n"
      [] c = "F" -> "f" [] c = "Y" -> "y" [] c = "E" -> "e" [] c = "S" -> "s"
      [] c = "T" -> "t" [] c = "R" -> "r" [] c = "U" -> "u" [] c = "A" -> "a"
      [] c = "L" -> "l" [] c = "P" -> "p" [] c = "B" -> "b" [] c = "G" -> "g"
      [] OTHER -> c

toLowerCase(s) == [k \in 1..Len(s) |-> Lower(s[k])]

\* String.prototype.trim
trim(s) ==
    LET n == Len(s)
        nonWs == {k \in 1..n : ~IsWs(s[k])}
    IN  IF nonWs = {} THEN <<>>
        ELSE LET a == CHOOSE k \in nonWs : \A j \in nonWs : k <= j
                 b == CHOOSE k \in nonWs : \A j \in nonWs : k >= j
             IN  SubSeq(s, a, b)

\* " ".repeat(n)
Spaces(n) == [k \in 1..n |-> "sp"]

Fence3 == <<"bt", "bt", "bt">>
TagMarkdown == <<"m", "a", "r", "k", "d", "o", "w", "n">>
TagMd == <<"m", "d">>

\* a variant of the match that compares the letters as they are
HasAtExact(s, p, w) ==
    /\ p >= 1
    /\ p + Len(w) - 1 <= Len(s)
    /\ \A k \in 1..Len(w) : s[p + k - 1] = w[k]

\* s carries w (compared case-insensitively) from position p on
HasAt(s, p, w) ==
    /\ p >= 1
    /\ p + Len(w) - 1 <= Len(s)
    /\ \A k \in 1..Len(w) : Lower(s[p + k - 1]) = w[k]

\* The regular expression of stripOuterMarkdownFence on the trimmed text:
\* three backticks, whitespace, markdown or md in any case, whitespace, a
\* line feed, the lazy capture group, an optional carriage return, a line
\* feed, three backticks, whitespace, the end of the text.
\* FenceMatch gives <<first, last>> of the capture group, or <<>> for no match.
FenceMatch(t) ==
    LET n == Len(t)
        afterTicks == {k \in 4..n : ~IsWs(t[k])}
    IN  IF ~(HasAt(t, 1, Fence3) /\ afterTicks # {}) THEN <<>>
        ELSE
        LET p == CHOOSE k \in afterTicks : \A j \in afterTicks : k <= j
            tagEnd == IF HasAt(t, p, TagMarkdown) THEN p + 7
                      ELSE IF HasAt(t, p, TagMd) THEN p + 1
                      ELSE 0
            \* the trimmed text ends in the closing fence: no whitespace follows
            closed == n >= 4 /\ HasAt(t, n - 2, Fence3) /\ t[n - 3] = "nl"
            \* the line feed that ends the opening line: the whitespace run
            \* before it is greedy
            heads == {h \in (tagEnd + 1)..(n - 4) :
                        /\ t[h] = "nl"
                        /\ \A j \in (tagEnd + 1)..(h - 1) : IsWs(t[j])}
        IN  IF tagEnd = 0 \/ ~closed \/ heads = {} THEN <<>>
            ELSE
            LET h == CHOOSE k \in heads : \A j \in heads : k >= j
                \* the group is lazy: a carriage return before the closing
                \* line feed is left out of it
                e == IF h + 1 <= n - 4 /\ t[n - 4] = "cr" THEN n - 5 ELSE n - 4
            IN  <<h + 1, e>>

stripOuterMarkdownFence(text) ==
    LET trimmed == trim(text)
        match == FenceMatch(trimmed)
    IN  IF match = <<>> THEN text
        ELSE SubSeq(trimmed, match[1], match[2])

\* how many times an outer fence can be taken off s
RECURSIVE FenceLayers(_)
FenceLayers(s) ==
    IF stripOuterMarkdownFence(s) = s THEN 0
    ELSE 1 + FenceLayers(stripOuterMarkdownFence(s))

----------------------------------------------------------------------------
(* Values and parsing *)

\* a JavaScript value as typeof sees it: t is "undefined", "boolean",
\* "string" or "number"
JUndef == [t |-> "undefined", b |-> FALSE, s |-> <<>>, n |-> 0]
JBool(x) == [t |-> "boolean", b |-> x, s |-> <<>>, n |-> 0]
JStr(x) == [t |-> "string", b |-> FALSE, s |-> x, n |-> 0]
JNum(x) == [t |-> "number", b |-> FALSE, s |-> <<>>, n |-> x]

\* an optional string that is unset (never the empty string in this program)
Undef == <<>>

Digits == {"0", "1", "2", "3", "4", "5", "6", "7", "8", "9"}

DigitVal(c) ==
    CASE c = "0" -> 0 [] c = "1" -> 1 [] c = "2" -> 2 [] c = "3" -> 3
      [] c = "4" -> 4 [] c = "5" -> 5 [] c = "6" -> 6 [] c = "7" -> 7
      [] c = "8" -> 8 [] c = "9" -> 9

RECURSIVE DigitsVal(_)
DigitsVal(d) ==
    IF d = <<>> THEN 0
    ELSE 10 * DigitsVal(SubSeq(d, 1, Len(d) - 1)) + DigitVal(d[Len(d)])

\* Number.parseInt(s, 10): leading whitespace, an optional sign, then the
\* longest run of digits; NaN (ok = FALSE) when there is no digit
parseInt(s) ==
    LET nonWs == {k \in 1..Len(s) : ~IsWs(s[k])}
        a == IF nonWs = {} THEN Len(s) + 1
             ELSE CHOOSE k \in nonWs : \A j \in nonWs : k <= j
        signed == a <= Len(s) /\ s[a] \in {"-", "+"}
        d0 == IF signed THEN a + 1 ELSE a
        stops == {k \in d0..Len(s) : s[k] \notin Digits}
        d1 == IF stops = {} THEN Len(s)
              ELSE (CHOOSE k \in stops : \A j \in stops : k <= j) - 1
        mag == DigitsVal(SubSeq(s, d0, d1))
    IN  IF d1 < d0 THEN [ok |-> FALSE, n |-> 0]
        ELSE [ok |-> TRUE,
              n |-> IF signed /\ s[a] = "-" THEN 0 - mag ELSE mag]

\* a variant of toInt that takes what is no number for 0
toIntOrZero(value) ==
    [ok |-> TRUE,
     n |-> IF value.t = "number" THEN value.n
           ELSE IF value.t = "string" THEN parseInt(value.s).n
           ELSE 0]

toInt(value) ==
    IF value.t = "number" THEN [ok |-> TRUE, n |-> value.n]
    ELSE IF value.t = "string" THEN parseInt(value.s)
    ELSE [ok |-> FALSE, n |-> 0]

\* Math.max
Max2(a, b) == IF a >= b THEN a ELSE b

\* a variant of Math.min that returns its second argument
Second(a, b) == b

\* Math.min
Min2(a, b) == IF a <= b THEN a ELSE b

\* a variant of the clamp that lets every number through
NoClamp(n) == n

\* Math.max(0, Math.min(8, n))
ClampIndent(n) == Max2(0, Min2(8, n))

On == <<"o", "n">>
Off == <<"o", "f", "f">>

TrueWords == {<<"1">>, <<"t", "r", "u", "e">>, On, <<"y", "e", "s">>, <<"y">>}
FalseWords == {<<"0">>, <<"f", "a", "l", "s", "e">>, Off, <<"n", "o">>, <<"n">>}

parseOnOff(value, defaultValue) ==
    IF value.t = "boolean" THEN value.b
    ELSE IF value.t # "string" THEN defaultValue
    ELSE LET w == toLowerCase(trim(value.s))
         IN  IF w \in TrueWords THEN TRUE
             ELSE IF w \in FalseWords THEN FALSE
             ELSE defaultValue

OffWords == {Off, <<"n", "o", "n", "e">>, <<"0">>, <<"f", "a", "l", "s", "e">>}

normalizeBgKey(value) ==
    IF value.t # "string" THEN Undef
    ELSE LET v == trim(value.s)
         IN  IF v = <<>> THEN Undef
             ELSE IF toLowerCase(v) \in OffWords THEN Undef
             ELSE v

parseIndentSpaces(value, defaultSpaces) ==
    LET n == toInt(value)
    IN  Spaces(IF ~n.ok THEN defaultSpaces ELSE ClampIndent(n.n))

\* the background keys the theme knows
KeyToolPendingBg ==
    <<"t", "o", "o", "l", "P", "e", "n", "d", "i", "n", "g", "B", "g">>
KeySelectedBg == <<"s", "e", "l", "e", "c", "t", "e", "d", "B", "g">>
KeyCustomMessageBg ==
    <<"c", "u", "s", "t", "o", "m", "M", "e", "s", "s", "a", "g", "e", "B", "g">>
KeyUserMessageBg ==
    <<"u", "s", "e", "r", "M", "e", "s", "s", "a", "g", "e", "B", "g">>

ThemeBgKeys ==
    {KeyToolPendingBg, KeySelectedBg, KeyCustomMessageBg, KeyUserMessageBg}

\* ctx.ui.theme.getBgAnsi(key): the introducer of the key's background
\* colour; it throws for a key the theme does not know (ok = FALSE)
getBgAnsi(key) ==
    IF key \notin ThemeBgKeys THEN [ok |-> FALSE, ansi |-> Undef]
    ELSE [ok |-> TRUE,
          ansi |-> CASE key = KeyToolPendingBg -> <<"ESC[48;toolPending m">>
                     [] key = KeySelectedBg -> <<"ESC[48;selected m">>
                     [] key = KeyCustomMessageBg -> <<"ESC[48;customMessage m">>
                     [] key = KeyUserMessageBg -> <<"ESC[48;userMessage m">>]

----------------------------------------------------------------------------
(* Options *)

\* the defaults of getPatchState
defaults ==
    [enabled |-> TRUE,
     unwrapOuterMarkdownFence |-> TRUE,
     hideCodeFences |-> TRUE,
     showCodeFenceLanguageLabel |-> FALSE,
     stripHeadingPrefixes |-> TRUE,
     codeBlockBgKey |-> KeyToolPendingBg,
     codeBlockBgAnsi |-> Undef,
     codeBlockIndent |-> Spaces(4)]

----------------------------------------------------------------------------
(* Persisted settings *)

LEGACY_SETTINGS_ENTRY_TYPE == "commonmark-renderer:settings"
SETTINGS_ENTRY_TYPE == "render-md:settings"

\* PersistedTuiSettings: every field is optional
Tui(unwrap, hide, label, strip, bg, indent) ==
    [isRecord |-> TRUE,
     unwrapOuterMarkdownFence |-> unwrap,
     hideCodeFences |-> hide,
     showCodeFenceLanguageLabel |-> label,
     stripHeadingPrefixes |-> strip,
     codeBlockBgKey |-> bg,
     codeIndentSpaces |-> indent]

NoTui ==
    [isRecord |-> FALSE,
     unwrapOuterMarkdownFence |-> JUndef,
     hideCodeFences |-> JUndef,
     showCodeFenceLanguageLabel |-> JUndef,
     stripHeadingPrefixes |-> JUndef,
     codeBlockBgKey |-> JUndef,
     codeIndentSpaces |-> JUndef]

\* entry.data: an object with an optional tui member, or something else
NoData == [isRecord |-> FALSE, tui |-> NoTui]
Data(tui) == [isRecord |-> TRUE, tui |-> tui]

Entry(type, customType, data) ==
    [type |-> type, customType |-> customType, data |-> data]

\* a variant of the loop that keeps the first matching entry it meets
ScanFirst(latest, entry) ==
    IF latest.isRecord THEN latest
    ELSE IF entry.type # "custom" THEN latest
    ELSE IF /\ entry.customType # SETTINGS_ENTRY_TYPE
            /\ entry.customType # LEGACY_SETTINGS_ENTRY_TYPE THEN latest
    ELSE entry.data

\* one turn of the loop of readPersistedSettings
ScanStep(latest, entry) ==
    IF entry.type # "custom" THEN latest
    ELSE IF /\ entry.customType # SETTINGS_ENTRY_TYPE
            /\ entry.customType # LEGACY_SETTINGS_ENTRY_TYPE THEN latest
    ELSE entry.data

RECURSIVE ScanBranch(_, _, _)
ScanBranch(branch, k, latest) ==
    IF k > Len(branch) THEN latest
    ELSE ScanBranch(branch, k + 1, ScanStep(latest, branch[k]))

readPersistedSettings(branch) ==
    LET latest == ScanBranch(branch, 1, NoData)
    IN  IF ~latest.isRecord THEN NoData ELSE latest

\* a variant of persistTuiSettings that leaves an unset key out
SnapshotBare(o) ==
    Data(Tui(JBool(o.unwrapOuterMarkdownFence),
             JBool(o.hideCodeFences),
             JBool(o.showCodeFenceLanguageLabel),
             JBool(o.stripHeadingPrefixes),
             IF o.codeBlockBgKey = Undef THEN JUndef
             ELSE JStr(o.codeBlockBgKey),
             JNum(Len(o.codeBlockIndent))))

\* the data persistTuiSettings hands to pi.appendEntry
Snapshot(o) ==
    Data(Tui(JBool(o.unwrapOuterMarkdownFence),
             JBool(o.hideCodeFences),
             JBool(o.showCodeFenceLanguageLabel),
             JBool(o.stripHeadingPrefixes),
             JStr(IF o.codeBlockBgKey = Undef THEN Off ELSE o.codeBlockBgKey),
             JNum(Len(o.codeBlockIndent))))

----------------------------------------------------------------------------
(* Theme functions and Markdown instances *)

\* the theme objects the host has
Themes == {1, 2}

\* A theme function is the base function of the theme under a stack of the
\* wrappers patchMarkdownInstance installed, innermost first.  Each wrapper
\* closes over the options object that was current when it was installed:
\* live = TRUE while that object still is PatchState.options, otherwise o
\* holds the values the object had when getPatchState replaced it.
BaseFn == [def |-> TRUE, layers |-> <<>>]
NoFn == [def |-> FALSE, layers |-> <<>>]

LiveLayer == [live |-> TRUE, o |-> defaults]

Wrap(f) == [def |-> TRUE, layers |-> Append(f.layers, LiveLayer)]

Depth(f) == Len(f.layers)

\* the options a wrapper reads when it is called
LayerOptions(l) == IF l.live THEN options ELSE l.o

\* an optional string of a theme: theme.codeBlockIndent
NoStr == [def |-> FALSE, s |-> <<>>]
Str(x) == [def |-> TRUE, s |-> x]

BaseTheme(k) ==
    [codeBlock |-> BaseFn,
     codeBlockBorder |-> BaseFn,
     highlightCode |-> IF k = 1 THEN BaseFn ELSE NoFn,
     codeBlockIndent |-> IF k = 1 THEN NoStr ELSE Str(Spaces(2))]

NoOriginals ==
    [captured |-> FALSE,
     codeBlock |-> NoFn,
     codeBlockBorder |-> NoFn,
     highlightCode |-> NoFn,
     codeBlockIndent |-> NoStr]

\* instance.__piCommonmarkThemeOriginals = {...}
CaptureOriginals(th) ==
    [captured |-> TRUE,
     codeBlock |-> th.codeBlock,
     codeBlockBorder |-> th.codeBlockBorder,
     highlightCode |-> th.highlightCode,
     codeBlockIndent |-> th.codeBlockIndent]

\* a Markdown instance: its text and the __piCommonmark* fields
\* (revApplied = -1 while __piCommonmarkRevisionApplied is undefined)
NewInstance(text) ==
    [text |-> text,
     revApplied |-> 0 - 1,
     unwrapped |-> FALSE,
     themePatched |-> FALSE,
     orig |-> NoOriginals]

\* getPatchState replaces PatchState.options by a copy: every closure that
\* holds the old object keeps the values o it had
FreezeFn(f, o) ==
    [f EXCEPT !.layers =
        [k \in 1..Len(f.layers) |->
            IF f.layers[k].live THEN [live |-> FALSE, o |-> o]
            ELSE f.layers[k]]]

FreezeSlots(r, o) ==
    [r EXCEPT !.codeBlock = FreezeFn(r.codeBlock, o),
              !.codeBlockBorder = FreezeFn(r.codeBlockBorder, o),
              !.highlightCode = FreezeFn(r.highlightCode, o)]

FreezeThemes(ths, o) == [k \in Themes |-> FreezeSlots(ths[k], o)]

FreezeInstances(ins, o) ==
    [i \in DOMAIN ins |-> [ins[i] EXCEPT !.orig = FreezeSlots(ins[i].orig, o)]]

\* a variant of getPatchState that fills the options with the defaults
ResetOptions(o) == defaults

\* getPatchState on an existing state: { ...defaults, ...options }
BackfillOptions(o) ==
    [f \in DOMAIN defaults |-> IF f \in DOMAIN o THEN o[f] ELSE defaults[f]]

\* a variant of getPatchState that starts the revision again on every call
ResetRevision(r) == r - r

\* the revision of a PatchState that already exists: revision ??= 0
BackfillRevision(r) == r

\* a variant of the reset that leaves __piCommonmarkThemePatched alone
ResetKeepsThemePatched(ins, rev) ==
    IF ins.revApplied # rev
    THEN [ins EXCEPT !.revApplied = rev, !.unwrapped = FALSE]
    ELSE ins

\* the reset patchMarkdownInstance makes when the revision changed
ResetOnStale(ins, rev) ==
    IF ins.revApplied # rev
    THEN [ins EXCEPT !.revApplied = rev,
                     !.unwrapped = FALSE,
                     !.themePatched = FALSE]
    ELSE ins

\* step 1 of patchMarkdownInstance: the outer fence is looked for
UnwrapDue(ins, o) == o.unwrapOuterMarkdownFence /\ ~ins.unwrapped

\* a variant of the unwrap that does not set __piCommonmarkUnwrapped
UnwrapUnmarked(ins) ==
    [ins EXCEPT !.text = stripOuterMarkdownFence(ins.text)]

UnwrapInstance(ins) ==
    [ins EXCEPT !.unwrapped = TRUE,
                !.text = stripOuterMarkdownFence(ins.text)]

\* a variant of the indent assignment that puts the background introducer
\* in front of every indent, the empty one included
ThemeIndentAlways(o) == o.codeBlockBgAnsi \o o.codeBlockIndent

\* theme.codeBlockIndent as patchMarkdownInstance writes it; the indent of
\* the options is never nullish, so the fallbacks after ?? are not taken
ThemeIndent(o) ==
    LET baseIndent == o.codeBlockIndent
    IN  IF o.codeBlockBgAnsi # Undef /\ baseIndent # <<>>
        THEN o.codeBlockBgAnsi \o baseIndent
        ELSE baseIndent

\* a variant of step 2 without the early return on __piCommonmarkThemePatched
AlwaysPatchDue(ins) == ins.themePatched \/ ~ins.themePatched

\* step 2 is skipped while the instance is marked as patched
ThemePatchDue(ins) == ~ins.themePatched

\* a variant of step 2 that wraps what the theme holds, without restoring
KeepWrappers(th, orig) == th

\* theme.codeBlock = originals.codeBlock; ... (before wrapping again)
RestoreOriginals(th, orig) ==
    [th EXCEPT !.codeBlock = orig.codeBlock,
               !.codeBlockBorder = orig.codeBlockBorder,
               !.highlightCode = orig.highlightCode]

\* the three wrappers; highlightCode only when the theme has one
InstallWrappers(th) ==
    [th EXCEPT !.codeBlock = Wrap(th.codeBlock),
               !.highlightCode = IF th.highlightCode.def
                                 THEN Wrap(th.highlightCode)
                                 ELSE th.highlightCode,
               !.codeBlockBorder = Wrap(th.codeBlockBorder)]

\* what patchMarkdownInstance did: the instance and its theme afterwards,
\* and how often the fence was looked for, the wrappers were installed and
\* instance.invalidate() was called
Patched(ins, th, strips, installs, invalidations) ==
    [inst |-> ins, theme |-> th, strips |-> strips, installs |-> installs,
     invalidations |-> invalidations]

\* step 2: return if the instance is marked as patched; otherwise mark it,
\* restore the originals, install the wrappers and invalidate
PatchWrappers(ins, th, strips, invalidations) ==
    IF ThemePatchDue(ins)
    THEN Patched([ins EXCEPT !.themePatched = TRUE],
                 InstallWrappers(RestoreOriginals(th, ins.orig)),
                 strips, 1, invalidations + 1)
    ELSE Patched(ins, th, strips, 0, invalidations)

\* the originals are captured once, the indent is written on every call
PatchTheme(ins, th, o, strips, invalidations) ==
    PatchWrappers(IF ins.orig.captured THEN ins
                  ELSE [ins EXCEPT !.orig = CaptureOriginals(th)],
                  [th EXCEPT !.codeBlockIndent = Str(ThemeIndent(o))],
                  strips, invalidations)

\* step 1: the outer fence; the instance is invalidated if the text changed
PatchUnwrap(ins, th, o, invalidations) ==
    IF UnwrapDue(ins, o)
    THEN PatchTheme(UnwrapInstance(ins), th, o, 1,
                    invalidations
                    + (IF stripOuterMarkdownFence(ins.text) # ins.text
                       THEN 1 ELSE 0))
    ELSE PatchTheme(ins, th, o, 0, invalidations)

\* patchMarkdownInstance(instance, state)
patchMarkdownInstance(ins, th, o, rev) ==
    IF ~o.enabled THEN Patched(ins, th, 0, 0, 0)
    ELSE PatchUnwrap(ResetOnStale(ins, rev), th, o,
                     IF ins.revApplied # rev THEN 1 ELSE 0)

----------------------------------------------------------------------------
(* Inputs *)

Plain == <<"B">>

Fenced(tag, body) == Fence3 \o tag \o <<"nl">> \o body \o <<"nl">> \o Fence3

\* one fence, two and three nested fences, and a fence written with
\* blanks, capitals and carriage returns
Fenced1 == Fenced(TagMd, Plain)
Fenced2 == Fenced(TagMarkdown, Fenced1)
Fenced3 == Fenced(TagMd, Fenced2)
FencedLoose ==
    <<"sp">> \o Fence3 \o <<"sp", "M", "d", "sp", "cr", "nl">> \o Plain
        \o <<"cr", "nl">> \o Fence3 \o <<"nl">>

\* the texts the host assigns
RenderTexts == {Fenced3}
ConfigTexts == {FencedLoose}

\* texts around the outer fence: every way of writing the opening line,
\* and every way of writing the closing line
OpeningTexts ==
    {lead \o Fence3 \o w1 \o tag \o w2 \o <<"nl">> \o body
          \o <<"nl">> \o Fence3 :
        lead \in {<<>>, <<"sp">>},
        w1 \in {<<>>, <<"sp">>, <<"nl">>},
        tag \in {TagMd, <<"M", "d">>, TagMarkdown, <<"m", "d", "x">>, <<>>},
        w2 \in {<<>>, <<"sp">>, <<"nl">>, <<"cr">>},
        body \in {<<>>, Plain}}

ClosingTexts ==
    {Fence3 \o tag \o w2 \o <<"nl">> \o body \o lb \o close :
        tag \in {TagMd, TagMarkdown},
        w2 \in {<<>>, <<"nl">>},
        body \in {<<>>, Plain, Plain \o <<"nl">> \o Fence3 \o <<"nl">> \o Plain},
        lb \in {<<"nl">>, <<"cr", "nl">>, <<>>},
        close \in {Fence3, Fence3 \o <<"sp", "nl">>, Fence3 \o Plain,
                   <<"bt", "bt">>}}

FenceTexts == OpeningTexts \cup ClosingTexts \cup {Plain, Fenced3}

\* the instance whose text the host keeps assigning (the message that is
\* streaming in); the other instances keep the text they were built with
Streaming == {1}

KeyUnknown == <<"x", "B", "g">>

\* pi.getFlag(...) of the flags of the interactive patch
Flags(tui, noTui, unfence, hide, label, bg, indent, strip) ==
    [tui |-> tui, noTui |-> noTui, unfence |-> unfence, hideFences |-> hide,
     codeLabel |-> label, codeBg |-> bg, codeIndent |-> indent,
     stripHeadingPrefix |-> strip, commonmark |-> TRUE,
     noCommonmark |-> FALSE, mode |-> "text"]

\* the registered defaults
FlagsDefault ==
    Flags(TRUE, FALSE, On, On, Off, KeyToolPendingBg, <<"4">>, On)

\* values that need trimming, lower-casing, clamping or a fallback, and a
\* background key the theme does not know
FlagsCustom ==
    Flags(TRUE, FALSE, <<"sp", "O", "N">>, <<"n", "o">>, <<"y", "e", "s">>,
          KeyUnknown, <<"1", "2">>, <<"m", "a", "y", "b", "e">>)

\* --no-commonmark-tui, and a background key the theme does not know
FlagsNoTui ==
    Flags(TRUE, TRUE, Off, On, Off, KeyUnknown, <<"a", "b", "c">>, On)

\* fences hidden with the language label, no background, no indent
FlagsLabel ==
    Flags(TRUE, FALSE, On, On, On, Off, <<"0">>, On)

EntryLegacyFull ==
    Entry("custom", LEGACY_SETTINGS_ENTRY_TYPE,
          Data(Tui(JBool(FALSE), JBool(FALSE), JBool(TRUE), JBool(FALSE),
                   JStr(KeySelectedBg), JNum(2))))

\* only hideCodeFences is present
EntryPartial ==
    Entry("custom", SETTINGS_ENTRY_TYPE,
          Data(Tui(JUndef, JBool(FALSE), JUndef, JUndef, JUndef, JUndef)))

\* members of the wrong type, an indent out of range, the key "Off"
EntryBadTypes ==
    Entry("custom", SETTINGS_ENTRY_TYPE,
          Data(Tui(JStr(Off), JNum(1), JUndef, JBool(FALSE),
                   JStr(<<"O", "f", "f">>), JNum(12))))

\* data that is no object
EntryNotRecord == Entry("custom", SETTINGS_ENTRY_TYPE, NoData)

\* entries of other kinds
EntryOther ==
    Entry("custom", "other:settings",
          Data(Tui(JBool(FALSE), JBool(FALSE), JBool(TRUE), JBool(FALSE),
                   JStr(KeyUserMessageBg), JNum(7))))
EntryMessage == Entry("message", "", NoData)

\* the flags of a process and the log of the session it opens
SampleSessions ==
    {<<FlagsDefault, <<>>>>,
     <<FlagsDefault, <<EntryPartial, EntryLegacyFull, EntryOther>>>>,
     <<FlagsCustom, <<EntryLegacyFull, EntryPartial>>>>,
     <<FlagsCustom, <<EntryBadTypes, EntryMessage>>>>,
     <<FlagsNoTui, <<EntryLegacyFull, EntryNotRecord>>>>}

\* /render-md <cmd> <value>; Undef is a value that was not given
CommandArgs ==
    {<<"status", Undef>>, <<"bogus", Undef>>, <<"ui", Undef>>,
     <<"label", Undef>>, <<"label", On>>, <<"label", <<"x">>>>,
     <<"hide-fences", Off>>, <<"hide-fences", On>>,
     <<"unfence", Off>>, <<"unfence", <<"sp", "O", "n">>>>,
     <<"headings", Off>>,
     <<"bg", Off>>, <<"bg", KeySelectedBg>>, <<"bg", KeyUnknown>>,
     <<"indent", Undef>>, <<"indent", <<"2">>>>,
     <<"indent", <<"a", "b", "c">>>>, <<"indent", <<"1", "2">>>>,
     <<"indent", <<"-", "3">>>>}

\* (id, newValue) as the settings list reports a change
PanelChanges ==
    {<<"unfence", On>>, <<"unfence", Off>>,
     <<"hide-fences", On>>, <<"hide-fences", Off>>,
     <<"code-label", On>>, <<"code-label", Off>>,
     <<"headings", On>>, <<"headings", Off>>,
     <<"code-bg", KeySelectedBg>>, <<"code-bg", Off>>,
     <<"code-indent", <<"0">>>>, <<"code-indent", <<"8">>>>}

\* which instances the host shows and the theme object each was given:
\* one instance on a theme with a highlighter, one on a theme without,
\* and two instances that share one theme object
ThemeConfigs == {(1 :> 1), (1 :> 2), (1 :> 1) @@ (2 :> 1)}

\* the smaller inputs of the specification that follows the rendering
RenderSessions ==
    {<<FlagsDefault, <<>>>>,
     <<FlagsNoTui, <<EntryLegacyFull, EntryNotRecord>>>>}

RenderArgs ==
    {<<"status", Undef>>, <<"ui", Undef>>,
     <<"unfence", Off>>, <<"bg", Off>>}

RenderPanelChanges ==
    {<<"code-bg", KeySelectedBg>>, <<"code-indent", <<"0">>>>}

\* the sessions, edits and lines of code blocks for the theme functions
ThemeSessions == {<<FlagsDefault, <<>>>>, <<FlagsLabel, <<>>>>}

ThemeArgs ==
    {<<"label", On>>, <<"hide-fences", Off>>, <<"bg", Off>>,
     <<"bg", KeySelectedBg>>, <<"indent", <<"3">>>>}

\* lines the original render hands to codeBlock and highlightCode
CodeLines ==
    {<<>>, <<"x">>, <<"ESC[0m">>, <<"x", "ESC[0m", "y">>,
     <<"ESC[49m", "x">>, <<"x", "ESC[49m", "ESC[0m">>}

\* lines the original render hands to codeBlockBorder: closing fences,
\* opening fences with a language, and lines that are no fence
BorderLines ==
    {Fence3, Fence3 \o <<"sp">>, Fence3 \o <<"j", "s">>,
     Fence3 \o <<"sp", "j", "s", "sp">>, <<"bt", "bt", "x">>,
     <<"x", "ESC[49m">>}

StyledLines ==
    ({"codeBlock", "highlightCode"} \X CodeLines)
        \cup ({"codeBlockBorder"} \X BorderLines)

\* a token of the parsed text: its type, the depth of a heading, and its
\* text; inline says the token carries inline tokens
Token(type, depth, text, inline) ==
    [type |-> type, depth |-> depth, text |-> text, inline |-> inline]

NoToken == Token("", 0, <<>>, FALSE)

Heading(depth) == Token("heading", depth, <<"T">>, TRUE)

\* a call of renderToken or renderListItem by the original render, with
\* the width and paddingX of the render call it belongs to
NoCall ==
    [m |-> "", tok |-> NoToken, next |-> "", toks |-> <<>>, depth |-> 0,
     width |-> 0, paddingX |-> 0]

TokenCall(tok, next, width, paddingX) ==
    [NoCall EXCEPT !.m = "renderToken", !.tok = tok, !.next = next,
                   !.width = width, !.paddingX = paddingX]

ItemCall(toks, depth, width, paddingX) ==
    [NoCall EXCEPT !.m = "renderListItem", !.toks = toks, !.depth = depth,
                   !.width = width, !.paddingX = paddingX]

\* the sessions and edits for tokens and list items: the patch enabled
\* and disabled, heading prefixes stripped and kept
TokenSessions == {<<FlagsDefault, <<>>>>, <<FlagsNoTui, <<>>>>}

TokenArgs == {<<"status", Undef>>, <<"headings", Off>>, <<"headings", On>>}

\* headings of every depth, one of them with a number sign in its text,
\* and tokens of other types
BlockTokens ==
    {Heading(d) : d \in 1..6}
        \cup {Token("heading", 3, <<"#", "T">>, TRUE),
              Token("paragraph", 0, <<"P">>, TRUE),
              Token("table", 0, <<>>, FALSE),
              Token("space", 0, <<>>, FALSE)}

\* the type of the token that follows ("" when there is none)
NextTypes == {"", "space", "paragraph"}

\* the children of a list item
ItemTokens ==
    {<<>>,
     <<Token("text", 0, <<"a">>, FALSE), Token("list", 0, <<>>, FALSE),
       Token("table", 0, <<>>, FALSE)>>,
     <<Token("text", 0, <<"a">>, TRUE), Heading(3),
       Token("space", 0, <<>>, FALSE), Token("code", 0, <<"c">>, FALSE)>>,
     <<Token("paragraph", 0, <<"P">>, TRUE), Heading(1),
       Token("blockquote", 0, <<>>, FALSE), Token("hr", 0, <<>>, FALSE),
       Heading(5)>>}

\* parentDepth of a list item
ItemDepths == {0, 1, 4}

\* <<width, paddingX>> of a render call
RenderWidths == {<<80, 1>>, <<30, 0>>, <<24, 2>>, <<3, 2>>}

BlockCalls ==
    {TokenCall(t, n, w[1], w[2]) :
        t \in BlockTokens, n \in NextTypes, w \in {<<80, 1>>}}
        \cup {ItemCall(ts, d, w[1], w[2]) :
                  ts \in ItemTokens, d \in ItemDepths, w \in RenderWidths}

\* print mode: the flags commonmark and no-commonmark and the mode of the
\* command line
FlagsNoPrint == [FlagsDefault EXCEPT !.commonmark = FALSE]
FlagsNoCommonmark == [FlagsDefault EXCEPT !.noCommonmark = TRUE]
FlagsJson == [FlagsDefault EXCEPT !.mode = "json"]
FlagsRpc == [FlagsDefault EXCEPT !.mode = "rpc"]

PrintSessions ==
    {<<f, <<>>>> : f \in {FlagsDefault, FlagsNoPrint, FlagsNoCommonmark,
                          FlagsJson, FlagsRpc}}

\* a message of the conversation and the blocks of its content
Block(type, text) == [type |-> type, text |-> text]
Message(role, content) == [role |-> role, content |-> content]

UserMessage == Message("user", <<Block("text", <<"q">>)>>)

\* assistant messages: one text block, two text blocks around a thinking
\* block, a tool call, blank text, no text block
AssistantMessages ==
    {Message("assistant", <<Block("text", <<"#", "sp", "A">>)>>),
     Message("assistant",
             <<Block("thinking", <<"t">>), Block("text", <<"A">>),
               Block("text", <<"B">>)>>),
     Message("assistant",
             <<Block("text", <<"A">>), Block("toolCall", <<>>)>>),
     Message("assistant", <<Block("text", <<"sp", "nl">>)>>),
     Message("assistant", <<Block("thinking", <<"t">>)>>)}

\* event.messages of agent_end
MessageLists ==
    {<<>>, <<UserMessage>>}
        \cup {<<UserMessage, a>> : a \in AssistantMessages}
        \cup {<<a, UserMessage, b, UserMessage>> :
                  a \in AssistantMessages, b \in AssistantMessages}

\* what md.render(width) returns for the text of a message: lines padded
\* with spaces, blank and whitespace-only lines in the middle and at the
\* end, a line that ends in an escape sequence
PrintLines ==
    {<<>>,
     <<<<>>>>,
     <<<<"A", "sp", "sp">>>>,
     <<<<"A">>, <<>>, <<"sp", "B", "tab">>, <<"sp", "sp">>, <<>>>>,
     <<<<"sp">>, <<"A", "sp", "ESC[0m">>, <<"tab">>>>,
     <<<<>>, <<"sp", "sp">>>>,
     <<<<"A", "sp", "B">>, <<"C", "cr">>>>}

----------------------------------------------------------------------------
(* Bookkeeping *)

\* what the operation that led to this state did; call is the method the
\* original render called during a render, if the model follows one
NoOp ==
    [op |-> "init", inst |-> 0, committed |-> FALSE,
     revBefore |-> 0, stale |-> FALSE, repeat |-> FALSE, strips |-> 0,
     installs |-> 0, rewrap |-> FALSE, infos |-> 0, warnings |-> 0,
     failed |-> FALSE, read |-> NoData, arg |-> <<>>, slot |-> "",
     out |-> <<>>, call |-> NoCall, messages |-> <<>>, after |-> <<>>,
     lines |-> <<>>, stored |-> <<>>, runs |-> 0, callRuns |-> 0,
     keysBefore |-> {}, invalidations |-> 0, changed |-> FALSE,
     hit |-> FALSE, hadCache |-> FALSE]

\* per instance, since its text was last assigned and the revision last
\* changed: rendered says a render took place, setStrips and renderStrips
\* count the calls of stripOuterMarkdownFence by setText and by render;
\* assigned is the number of fences of the text given to the last setText
\* if that setText unwrapped (0 otherwise)
NoHist ==
    [rendered |-> FALSE, setStrips |-> 0, renderStrips |-> 0, assigned |-> 0]

\* the revision changed: the counts start again
NewRevision(h) ==
    [i \in DOMAIN h |->
        [rendered |-> FALSE, setStrips |-> 0, renderStrips |-> 0,
         assigned |-> h[i].assigned]]

----------------------------------------------------------------------------
(* The cached render output *)

\* the cached output of an instance: has says there is one, text is the
\* text of the instance it was computed from, and older says it was
\* computed under a revision before the current one
NoCache == [has |-> FALSE, older |-> FALSE, text |-> <<>>]

Cached(text) == [has |-> TRUE, older |-> FALSE, text |-> text]

\* the revision goes from rev to next: what is cached was computed under
\* an older revision from now on
Aged(c, rev, next) ==
    IF next = rev THEN c
    ELSE [i \in DOMAIN c |-> [c[i] EXCEPT !.older = c[i].has]]

\* a variant of invalidate that leaves the cached output in place
keepCache(c) == c

\* instance.invalidate(): the cached output is dropped
invalidate(c) == NoCache

\* the cache when patchMarkdownInstance has returned: dropped if it called
\* instance.invalidate()
AfterPatch(c, invalidations) == IF invalidations > 0 THEN invalidate(c) ELSE c

\* state.originals.render.call(this, width): the cached output is returned
\* if there is one and the host may use it (mayHit); otherwise the output
\* is computed from the text and cached
originalRender(c, mayHit, text) ==
    IF c.has /\ mayHit THEN c ELSE Cached(text)

\* refreshTui(ctx) when a commit took place: ctx.ui.setTheme(name), the
\* full invalidation of the UI, drops the cached output of every instance
refreshTui(c, committed) ==
    IF committed THEN [i \in DOMAIN c |-> invalidate(c[i])] ELSE c

----------------------------------------------------------------------------
(* The patch state and the originals *)

\* the four methods of Markdown.prototype the patch replaces
Methods == {"render", "setText", "renderToken", "renderListItem"}

\* PATCH_STATE_KEY and OLD_PATCH_STATE_KEY: getPatchState leaves the state
\* under both
StateKeys == {"new", "old"}

\* no method stored
EmptyOriginals == [m \in Methods |-> "none"]

\* what Markdown.prototype holds for a method: the method of the host, or the
\* closure applyTuiMarkdownPatchOnce put there
ProtoMethod(p) == IF p THEN "patched" ELSE "original"

\* the originals of a state built from the prototype
ProtoOriginals(p) == [m \in Methods |-> ProtoMethod(p)]

\* a variant of the backfill that takes every original from the prototype
\* again
RecaptureOriginals(orig, p) == [m \in Methods |-> ProtoMethod(p)]

\* the originals of an existing state: only a missing one is taken from the
\* prototype
BackfillOriginals(orig, p) ==
    [m \in Methods |-> IF orig[m] = "none" THEN ProtoMethod(p) ELSE orig[m]]

\* getPatchState, the originals of the state it returns: keys are the keys
\* that hold a state, orig the originals of that state, p the prototype
getOriginals(keys, orig, p) ==
    IF keys # {} THEN BackfillOriginals(orig, p) ELSE ProtoOriginals(p)

\* how often one call of a patched method that hands over to
\* state.originals runs the method of the host: the closure reads
\* state.originals when it is called, so a stored closure calls itself and
\* never reaches the host's method
OriginalRuns(orig, m) == IF orig[m] = "original" THEN 1 ELSE 0

\* how often one call of Markdown.prototype's method m that hands over runs
\* the method of the host: an unpatched prototype holds that method itself
MethodRuns(p, orig, m) == IF p THEN OriginalRuns(orig, m) ELSE 1

\* how often the call c with the result out ran the host's method of its
\* own name: once for every result of that method in out
CallRuns(p, orig, c, out) ==
    IF c.m = "" THEN 0
    ELSE Cardinality({k \in 1..Len(out) : out[k].kind = c.m})
         * MethodRuns(p, orig, c.m)

----------------------------------------------------------------------------
(* The program *)

\* the process starts: no patch state, no session, the instances as built
InitOver(sessions, themeConfigs) ==
    /\ hasUI \in BOOLEAN
    /\ \E c \in sessions : flags = c[1] /\ log = c[2]
    /\ started = FALSE
    /\ patched = FALSE
    /\ revision = 0
    /\ options = defaults
    /\ panelOpen = FALSE
    /\ pending = <<>>
    /\ commits = 0
    /\ stateKeys = {}
    /\ originals = EmptyOriginals
    /\ themeOf \in themeConfigs
    /\ inst = [i \in DOMAIN themeOf |->
                  NewInstance(IF i \in Streaming THEN Fenced2 ELSE Plain)]
    /\ theme = [k \in Themes |-> BaseTheme(k)]
    /\ cache = [i \in DOMAIN themeOf |-> NoCache]
    /\ hist = [i \in DOMAIN themeOf |-> NoHist]
    /\ last = NoOp

\* applyTuiMarkdownPatchOnce: state.revision++
BumpRevision(r) == r + 1

\* a variant of commit that counts the revision up twice
CommitTwice(r) == r + 2

\* commit: state.revision++
CommitRevision(r) == r + 1

----------------------------------------------------------------------------
(* The theme functions at work *)

\* the escape sequences the wrappers look for, each one symbol of a line:
\* ESC[0m (full reset) and ESC[49m (background reset)
FullReset == "ESC[0m"
BgReset == "ESC[49m"

\* String.prototype.replaceAll for a one-symbol pattern
RECURSIVE replaceAll(_, _, _)
replaceAll(s, pattern, replacement) ==
    IF s = <<>> THEN <<>>
    ELSE (IF Head(s) = pattern THEN replacement ELSE <<Head(s)>>)
             \o replaceAll(Tail(s), pattern, replacement)

\* a variant of applyCodeBg that does not look for background resets
applyCodeBgOnce(o, s) ==
    IF o.codeBlockBgAnsi = Undef THEN s
    ELSE o.codeBlockBgAnsi
             \o replaceAll(s, FullReset, <<FullReset>> \o o.codeBlockBgAnsi)

\* applyCodeBg of the wrappers that read the options o
applyCodeBg(o, s) ==
    IF o.codeBlockBgAnsi = Undef THEN s
    ELSE o.codeBlockBgAnsi
             \o replaceAll(
                    replaceAll(s, FullReset,
                               <<FullReset>> \o o.codeBlockBgAnsi),
                    BgReset, o.codeBlockBgAnsi)

\* the functions the themes came with: theme 1 colours its text and ends
\* it with a reset, theme 2 returns its text as it is
BaseApply(k, f, t) ==
    IF k # 1 THEN t
    ELSE IF f = "codeBlockBorder" THEN <<"ESC[2m">> \o t \o <<BgReset>>
    ELSE <<"ESC[36m">> \o t \o <<FullReset>>

\* t.startsWith of three backticks
StartsWithFence(t) == Len(t) >= 3 /\ SubSeq(t, 1, 3) = Fence3

\* the label of a language; "<" and ">" stand for the angle quotes
Label(lang) == <<"<">> \o lang \o <<">">>

\* a variant of the border wrapper that hides the fence whatever
\* hideCodeFences says
BorderHidesAlways(o, t) == o.enabled /\ StartsWithFence(t)

\* the border wrapper replaces the line: fences are hidden and t is one
BorderHides(o, t) == o.enabled /\ o.hideCodeFences /\ StartsWithFence(t)

\* the function in slot f of the theme th (theme k of the host), taken
\* with its first d wrappers, applied to the line t
RECURSIVE CallSlot(_, _, _, _, _)
CallSlot(th, k, f, d, t) ==
    IF d = 0 THEN BaseApply(k, f, t)
    ELSE IF f # "codeBlockBorder" \/ ~BorderHides(LayerOptions(th[f].layers[d]), t)
    THEN applyCodeBg(LayerOptions(th[f].layers[d]),
                     CallSlot(th, k, f, d - 1, t))
    ELSE IF \/ trim(SubSeq(t, 4, Len(t))) = <<>>
            \/ ~LayerOptions(th[f].layers[d]).showCodeFenceLanguageLabel
    THEN (IF LayerOptions(th[f].layers[d]).codeBlockBgAnsi = Undef
          THEN <<>>
          ELSE LayerOptions(th[f].layers[d]).codeBlockBgAnsi)
    ELSE applyCodeBg(
             LayerOptions(th[f].layers[d]),
             (IF th.codeBlockIndent.def THEN th.codeBlockIndent.s
              ELSE Spaces(2))
                 \o CallSlot(th, k, f, d - 1,
                             Label(trim(SubSeq(t, 4, Len(t))))))

----------------------------------------------------------------------------
(* Tokens and list items *)

\* Lines a method returns are a sequence of elements: a line of text with
\* the theme styles applied to it (innermost first), or the lines a method
\* of the host returns for its arguments, which stand for themselves.
OutLine(styles, text) ==
    [kind |-> "line", styles |-> styles, s |-> text, tok |-> NoToken,
     toks |-> <<>>, width |-> 0, next |-> "", depth |-> 0]

\* state.originals.renderToken.call(this, token, width, nextTokenType)
OriginalToken(tok, width, next) ==
    [kind |-> "renderToken", styles |-> <<>>, s |-> <<>>, tok |-> tok,
     toks |-> <<>>, width |-> width, next |-> next, depth |-> 0]

\* state.originals.renderListItem.call(this, tokens, parentDepth)
OriginalItem(toks, parentDepth) ==
    [kind |-> "renderListItem", styles |-> <<>>, s |-> <<>>,
     tok |-> NoToken, toks |-> toks, width |-> 0, next |-> "",
     depth |-> parentDepth]

\* this.renderList(token, depth)
RenderListLines(tok, depth) ==
    [kind |-> "renderList", styles |-> <<>>, s |-> <<>>, tok |-> tok,
     toks |-> <<>>, width |-> 0, next |-> "", depth |-> depth]

\* this.renderInlineTokens(token.tokens): the host's inline rendering of
\* the text of a token
renderInlineTokens(tok) == <<"i(">> \o tok.text \o <<")">>

\* Math.max(1, width - paddingX * 2): __piCommonmarkContentWidth
ContentWidth(width, paddingX) == Max2(1, width - paddingX * 2)

\* a variant of the guard of renderToken that looks at the token only
DelegatesNonHeading(o, tok) == tok.type # "heading"

\* renderToken hands the token to the original
Delegates(o, tok) ==
    ~o.enabled \/ ~o.stripHeadingPrefixes \/ tok.type # "heading"

\* a variant of the heading indent that counts from depth 1
HeadingIndentFromOne(headingLevel) == Spaces(2 * (headingLevel - 1))

\* "  ".repeat(Math.max(0, headingLevel - 3))
HeadingIndent(headingLevel) == Spaces(2 * Max2(0, headingLevel - 3))

\* styledHeading
StyledHeading(tok) ==
    IF tok.depth = 1
    THEN OutLine(<<"underline", "bold", "heading">>, renderInlineTokens(tok))
    ELSE IF tok.depth = 2
    THEN OutLine(<<"bold", "heading">>, renderInlineTokens(tok))
    ELSE OutLine(<<"bold", "heading">>,
                 HeadingIndent(tok.depth) \o renderInlineTokens(tok))

\* a variant that puts an empty line after every heading
BlankAlways(next) == next = next

\* nextTokenType !== "space"
BlankAfter(next) == next # "space"

\* proto.renderToken; p says the prototype carries the patched method
renderToken(p, o, tok, width, next) ==
    IF ~p \/ Delegates(o, tok) THEN <<OriginalToken(tok, width, next)>>
    ELSE IF BlankAfter(next)
    THEN <<StyledHeading(tok), OutLine(<<>>, <<>>)>>
    ELSE <<StyledHeading(tok)>>

\* a variant of the block width without the lower limit
BlockWidthUnbounded(fullWidth, parentDepth) ==
    fullWidth - (2 * parentDepth + 2)

\* Math.max(20, fullWidth - continuationPrefix)
BlockWidth(fullWidth, parentDepth) ==
    Max2(20, fullWidth - (2 * parentDepth + 2))

\* tokens[i + 1]?.type
NextType(toks, k) == IF k + 1 <= Len(toks) THEN toks[k + 1].type ELSE ""

\* the lines of one child of a list item
ChildLines(o, toks, k, parentDepth, blockWidth) ==
    IF toks[k].type = "list"
    THEN <<RenderListLines(toks[k], parentDepth + 1)>>
    ELSE IF toks[k].type = "text"
    THEN <<OutLine(<<>>, IF toks[k].inline THEN renderInlineTokens(toks[k])
                         ELSE toks[k].text)>>
    ELSE IF toks[k].type = "paragraph"
    THEN <<OutLine(<<>>, renderInlineTokens(toks[k]))>>
    ELSE renderToken(TRUE, o, toks[k], blockWidth, NextType(toks, k))

\* a variant of lines.push that puts the new lines first
PushFirst(lines, more) == more \o lines

\* lines.push(...more)
Push(lines, more) == lines \o more

\* the loop of renderListItem from the child k on
RECURSIVE ItemLines(_, _, _, _, _, _)
ItemLines(o, toks, k, parentDepth, blockWidth, lines) ==
    IF k > Len(toks) THEN lines
    ELSE ItemLines(o, toks, k + 1, parentDepth, blockWidth,
                   Push(lines,
                        ChildLines(o, toks, k, parentDepth, blockWidth)))

\* proto.renderListItem; fullWidth is the content width the render call
\* stored on the instance before the original render ran
renderListItem(p, o, toks, parentDepth, fullWidth) ==
    IF ~p \/ ~o.enabled THEN <<OriginalItem(toks, parentDepth)>>
    ELSE ItemLines(o, toks, 1, parentDepth,
                   BlockWidth(fullWidth, parentDepth), <<>>)

\* what the method of the call c returns
CallOut(p, o, c) ==
    IF c.m = "renderToken"
    THEN renderToken(p, o, c.tok, ContentWidth(c.width, c.paddingX), c.next)
    ELSE renderListItem(p, o, c.toks, c.depth,
                        ContentWidth(c.width, c.paddingX))

\* proto.render with the outcome r of patchMarkdownInstance; the original
\* render changes nothing of the state
RenderedCall(i, r, f, t, call, out) ==
    /\ inst' = [inst EXCEPT ![i] = r.inst]
    /\ cache' = [cache EXCEPT ![i] =
          originalRender(AfterPatch(cache[i], r.invalidations),
                         call.m = "" /\ f = "", r.inst.text)]
    /\ theme' = [theme EXCEPT ![themeOf[i]] = r.theme]
    /\ hist' = [hist EXCEPT ![i] =
          [@ EXCEPT !.rendered = TRUE,
                    !.renderStrips = @ + r.strips]]
    /\ last' = [NoOp EXCEPT !.op = "render", !.inst = i,
                            !.revBefore = revision,
                            !.stale = /\ patched
                                      /\ options.enabled
                                      /\ inst[i].revApplied # revision,
                            !.repeat = hist[i].rendered,
                            !.strips = r.strips,
                            !.installs = r.installs,
                            !.rewrap = /\ r.installs = 1
                                       /\ inst[i].orig.captured,
                            !.slot = f, !.arg = t, !.out = out,
                            !.call = call,
                            !.runs = MethodRuns(patched, originals, "render"),
                            !.callRuns = CallRuns(patched, originals, call,
                                                  out),
                            !.invalidations = r.invalidations,
                            !.changed = r.inst.text # inst[i].text,
                            !.hadCache = cache[i].has,
                            !.hit = /\ call.m = "" /\ f = ""
                                    /\ AfterPatch(cache[i],
                                                  r.invalidations).has]
    /\ UNCHANGED <<hasUI, flags, started, patched, revision, options,
                   panelOpen, log, pending, commits, stateKeys, originals,
                   themeOf>>

\* proto.render during which the line t goes to slot f of the theme
RenderedLine(i, r, f, t, out) == RenderedCall(i, r, f, t, NoCall, out)

\* proto.render of a text without code blocks: no theme function is called
Rendered(i, r) == RenderedLine(i, r, "", <<>>, <<>>)

\* proto.render of a text with a code block: the original render hands the
\* line t to the function in slot f of the theme
RenderedCode(i, r, f, t) ==
    /\ r.theme[f].def
    /\ RenderedLine(i, r, f, t,
                    CallSlot(r.theme, themeOf[i], f, Depth(r.theme[f]), t))

\* proto.render: patchMarkdownInstance, then the original render; the
\* original render alone while the prototype is not patched
Render(i) ==
    Rendered(i, IF patched
                THEN patchMarkdownInstance(inst[i], theme[themeOf[i]],
                                           options, revision)
                ELSE Patched(inst[i], theme[themeOf[i]], 0, 0, 0))

RenderCode(i, f, t) ==
    RenderedCode(i, IF patched
                    THEN patchMarkdownInstance(inst[i], theme[themeOf[i]],
                                               options, revision)
                    ELSE Patched(inst[i], theme[themeOf[i]], 0, 0, 0),
                 f, t)

\* proto.render(width) of an instance with the padding paddingX, during
\* which the original render makes the call c of renderToken or
\* renderListItem
RenderBlock(i, c) ==
    RenderedCall(i, IF patched
                    THEN patchMarkdownInstance(inst[i], theme[themeOf[i]],
                                               options, revision)
                    ELSE Patched(inst[i], theme[themeOf[i]], 0, 0, 0),
                 "", <<>>, c, CallOut(patched, options, c))

----------------------------------------------------------------------------
(* Print mode *)

\* a variant of trimEnd that keeps the line as it is
keepEnd(s) == s

\* String.prototype.trimEnd
trimEnd(s) ==
    LET nonWs == {k \in 1..Len(s) : ~IsWs(s[k])}
    IN  IF nonWs = {} THEN <<>>
        ELSE SubSeq(s, 1, CHOOSE k \in nonWs : \A j \in nonWs : j <= k)

\* while (lines.length > 0 && lines[lines.length - 1] === "") lines.pop()
RECURSIVE DropTrailingBlank(_)
DropTrailingBlank(lines) ==
    IF lines # <<>> /\ lines[Len(lines)] = <<>>
    THEN DropTrailingBlank(SubSeq(lines, 1, Len(lines) - 1))
    ELSE lines

\* Array.prototype.join with a line feed
RECURSIVE Join(_)
Join(lines) ==
    IF lines = <<>> THEN <<>>
    ELSE IF Len(lines) = 1 THEN lines[1]
    ELSE lines[1] \o <<"nl">> \o Join(Tail(lines))

\* renderMarkdownToTerminal, given the lines md.render(width) returns
renderMarkdownToTerminal(lines) ==
    Join(DropTrailingBlank([k \in 1..Len(lines) |-> trimEnd(lines[k])]))

\* findLastAssistantMessage: the index of the message, 0 if there is none
findLastAssistantMessage(messages) ==
    LET a == {k \in 1..Len(messages) : messages[k].role = "assistant"}
    IN  IF a = {} THEN 0 ELSE CHOOSE k \in a : \A j \in a : j <= k

\* extractAssistantText
extractAssistantText(msg) ==
    Join(LET t == SelectSeq(msg.content, LAMBDA c : c.type = "text")
         IN  [k \in 1..Len(t) |-> t[k].text])

\* a variant of hasToolCalls that finds none
noToolCalls(msg) == msg # msg

\* hasToolCalls
hasToolCalls(msg) ==
    \E k \in 1..Len(msg.content) : msg.content[k].type = "toolCall"

\* the handler returns before it renders
AgentEndSkips(ui, f, messages) ==
    \/ ui
    \/ f.mode \in {"json", "rpc"}
    \/ ~f.commonmark
    \/ f.noCommonmark
    \/ findLastAssistantMessage(messages) = 0
    \/ hasToolCalls(messages[findLastAssistantMessage(messages)])
    \/ trim(extractAssistantText(
                messages[findLastAssistantMessage(messages)])) = <<>>

\* the first text block of the content gets the text; a text block is
\* appended if there is none
ReplaceFirstText(content, text) ==
    LET t == {k \in 1..Len(content) : content[k].type = "text"}
    IN  IF t = {} THEN Append(content, Block("text", text))
        ELSE [content EXCEPT
                 ![CHOOSE k \in t : \A j \in t : k <= j].text = text]

\* event.messages after the agent_end handler; lines is what md.render
\* returns for the text of the last assistant message
AgentEndMessages(ui, f, messages, lines) ==
    IF AgentEndSkips(ui, f, messages) THEN messages
    ELSE [messages EXCEPT
             ![findLastAssistantMessage(messages)].content =
                 ReplaceFirstText(@, renderMarkdownToTerminal(lines))]

\* pi.on("agent_end"): stored is the text kept in
\* originalMarkdownByAssistantTimestamp for the context handler
AgentEnd(messages, lines) ==
    /\ last' = [NoOp EXCEPT
          !.op = "agent_end",
          !.revBefore = revision,
          !.messages = messages,
          !.lines = IF AgentEndSkips(hasUI, flags, messages) THEN <<>>
                    ELSE lines,
          !.after = AgentEndMessages(hasUI, flags, messages, lines),
          !.stored = IF AgentEndSkips(hasUI, flags, messages) THEN <<>>
                     ELSE extractAssistantText(
                              messages[findLastAssistantMessage(messages)])]
    /\ UNCHANGED <<hasUI, flags, started, patched, revision, options,
                   panelOpen, log, pending, commits, stateKeys, originals,
                   inst, theme, cache, themeOf, hist>>

\* proto.setText, and the original setText while the prototype is not
\* patched
SetText(i, text) ==
    LET unwrap == /\ patched
                  /\ options.enabled
                  /\ options.unwrapOuterMarkdownFence
        nextText == IF unwrap THEN stripOuterMarkdownFence(text) ELSE text
    IN  /\ cache' = [cache EXCEPT ![i] = invalidate(@)]
        /\ inst' = [inst EXCEPT ![i] =
              [@ EXCEPT !.text = nextText,
                        !.unwrapped = IF patched THEN FALSE ELSE @]]
        /\ hist' = [hist EXCEPT ![i] =
              [rendered |-> FALSE,
               setStrips |-> IF unwrap THEN 1 ELSE 0,
               renderStrips |-> 0,
               assigned |-> IF unwrap THEN FenceLayers(text) ELSE 0]]
        /\ last' = [NoOp EXCEPT !.op = "setText", !.inst = i,
                                !.revBefore = revision,
                                !.strips = IF unwrap THEN 1 ELSE 0,
                                !.arg = text,
                                !.runs = MethodRuns(patched, originals,
                                                    "setText")]
        /\ UNCHANGED <<hasUI, flags, started, patched, revision, options,
                       panelOpen, log, pending, commits, stateKeys,
                       originals, theme, themeOf>>

\* a variant of recomputeBgAnsi that keeps a key the theme does not know
recomputeKeepsKey(o) ==
    IF o.codeBlockBgKey = Undef THEN [o EXCEPT !.codeBlockBgAnsi = Undef]
    ELSE [o EXCEPT !.codeBlockBgAnsi = getBgAnsi(o.codeBlockBgKey).ansi]

\* recomputeBgAnsi of the command handler: a key the theme does not know
\* is dropped together with the derived value
recomputeBgAnsi(o) ==
    IF o.codeBlockBgKey = Undef THEN [o EXCEPT !.codeBlockBgAnsi = Undef]
    ELSE LET g == getBgAnsi(o.codeBlockBgKey)
         IN  IF g.ok THEN [o EXCEPT !.codeBlockBgAnsi = g.ansi]
             ELSE [o EXCEPT !.codeBlockBgAnsi = Undef,
                            !.codeBlockBgKey = Undef]

Done(o, committed, infos, warnings) ==
    [options |-> o, committed |-> committed, infos |-> infos,
     warnings |-> warnings, open |-> FALSE]

\* the switch of renderMdCommandHandler on parts[0], parts[1]
CommandEffect(o, cmd, value) ==
    IF cmd \in {"ui", "menu"}
    THEN [Done(o, FALSE, 0, 0) EXCEPT !.open = TRUE]
    ELSE IF cmd = "status" THEN Done(o, FALSE, 1, 0)
    ELSE IF cmd \notin {"label", "hide-fences", "bg", "indent", "headings",
                        "unfence"}
    THEN Done(o, FALSE, 1, 0)
    ELSE IF value = Undef THEN Done(o, FALSE, 1, 0)
    ELSE IF cmd = "label"
    THEN Done([o EXCEPT !.showCodeFenceLanguageLabel =
                   parseOnOff(JStr(value), @)], TRUE, 1, 0)
    ELSE IF cmd = "hide-fences"
    THEN Done([o EXCEPT !.hideCodeFences = parseOnOff(JStr(value), @)],
              TRUE, 1, 0)
    ELSE IF cmd = "bg"
    THEN Done(recomputeBgAnsi(
                  [o EXCEPT !.codeBlockBgKey = normalizeBgKey(JStr(value))]),
              TRUE, 1, 0)
    ELSE IF cmd = "indent"
    THEN LET n == toInt(JStr(value))
         IN  IF ~n.ok THEN Done(o, FALSE, 0, 1)
             ELSE Done([o EXCEPT !.codeBlockIndent = Spaces(ClampIndent(n.n))],
                       TRUE, 1, 0)
    ELSE IF cmd = "headings"
    THEN Done([o EXCEPT !.stripHeadingPrefixes = parseOnOff(JStr(value), @)],
              TRUE, 1, 0)
    ELSE Done([o EXCEPT !.unwrapOuterMarkdownFence =
                   parseOnOff(JStr(value), @)], TRUE, 1, 0)

\* getBgAnsi throws in recomputeBgAnsi: a background edit names a key the
\* theme does not know
LookupFails(cmd, value) ==
    /\ cmd \in {"bg", "code-bg"}
    /\ value # Undef
    /\ normalizeBgKey(JStr(value)) # Undef
    /\ ~getBgAnsi(normalizeBgKey(JStr(value))).ok

\* /render-md: without a UI a notice and nothing else; otherwise the patch
\* is applied again (which replaces the options object and counts the
\* revision up), then the subcommand runs and, if it edits, commits
Command(cmd, value) ==
    /\ started
    /\ ~panelOpen
    /\ IF ~hasUI
       THEN /\ last' = [NoOp EXCEPT !.op = "command",
                                    !.revBefore = revision, !.infos = 1]
            /\ UNCHANGED <<patched, revision, options, panelOpen, pending,
                           commits, stateKeys, originals, inst, theme, cache,
                           hist>>
       ELSE LET e == CommandEffect(BackfillOptions(options), cmd, value)
                r1 == BumpRevision(BackfillRevision(revision))
            IN  /\ r1 < MaxRevision
                /\ e.committed => commits < MaxCommits
                /\ patched' = TRUE
                /\ stateKeys' = StateKeys
                /\ originals' = getOriginals(stateKeys, originals, patched)
                /\ theme' = FreezeThemes(theme, options)
                /\ inst' = FreezeInstances(inst, options)
                /\ options' = e.options
                /\ revision' = IF e.committed THEN CommitRevision(r1) ELSE r1
                /\ pending' = IF e.committed
                              THEN Append(pending, Snapshot(e.options))
                              ELSE pending
                /\ commits' = IF e.committed THEN commits + 1 ELSE commits
                /\ panelOpen' = e.open
                /\ cache' = refreshTui(Aged(cache, revision, r1),
                                       e.committed)
                /\ hist' = NewRevision(hist)
                /\ last' = [NoOp EXCEPT !.op = "command",
                                        !.committed = e.committed,
                                        !.revBefore = revision,
                                        !.infos = e.infos,
                                        !.warnings = e.warnings,
                                        !.failed = LookupFails(cmd, value),
                                        !.keysBefore = stateKeys]
    /\ UNCHANGED <<hasUI, flags, started, log, themeOf>>

\* the change callback of the settings list
PanelEffect(o, id, newValue) ==
    IF id = "unfence"
    THEN [o EXCEPT !.unwrapOuterMarkdownFence = (newValue = On)]
    ELSE IF id = "hide-fences"
    THEN [o EXCEPT !.hideCodeFences = (newValue = On)]
    ELSE IF id = "code-label"
    THEN [o EXCEPT !.showCodeFenceLanguageLabel = (newValue = On)]
    ELSE IF id = "headings"
    THEN [o EXCEPT !.stripHeadingPrefixes = (newValue = On)]
    ELSE IF id = "code-bg"
    THEN recomputeBgAnsi(
             [o EXCEPT !.codeBlockBgKey = normalizeBgKey(JStr(newValue))])
    ELSE LET n == toInt(JStr(newValue))
         IN  [o EXCEPT !.codeBlockIndent =
                  Spaces(ClampIndent(IF n.ok THEN n.n ELSE 0))]

PanelChange(id, newValue) ==
    /\ panelOpen
    /\ revision < MaxRevision
    /\ commits < MaxCommits
    /\ options' = PanelEffect(options, id, newValue)
    /\ revision' = CommitRevision(revision)
    /\ pending' = Append(pending, Snapshot(options'))
    /\ commits' = commits + 1
    /\ cache' = refreshTui(Aged(cache, revision, CommitRevision(revision)),
                           TRUE)
    /\ hist' = NewRevision(hist)
    /\ last' = [NoOp EXCEPT !.op = "panel", !.committed = TRUE,
                            !.revBefore = revision,
                            !.failed = LookupFails(id, newValue)]
    /\ UNCHANGED <<hasUI, flags, started, patched, panelOpen, log,
                   stateKeys, originals, inst, theme, themeOf>>

PanelClose ==
    /\ panelOpen
    /\ panelOpen' = FALSE
    /\ last' = [NoOp EXCEPT !.op = "close", !.revBefore = revision]
    /\ UNCHANGED <<hasUI, flags, started, patched, revision, options, log,
                   pending, commits, stateKeys, originals, inst, theme,
                   cache, themeOf, hist>>

\* session_start, first part: the options from the flags
FromFlags(o, f, ui) ==
    [o EXCEPT
        !.enabled = (f.tui /\ ~f.noTui) /\ ui,
        !.unwrapOuterMarkdownFence = parseOnOff(JStr(f.unfence), TRUE),
        !.hideCodeFences = parseOnOff(JStr(f.hideFences), TRUE),
        !.showCodeFenceLanguageLabel = parseOnOff(JStr(f.codeLabel), FALSE),
        !.stripHeadingPrefixes = parseOnOff(JStr(f.stripHeadingPrefix), TRUE),
        !.codeBlockIndent = parseIndentSpaces(JStr(f.codeIndent), 4),
        !.codeBlockBgKey = normalizeBgKey(JStr(f.codeBg))]

\* a variant that takes the persisted member without looking at its type
TakeMember(current, member) == member.b

\* one boolean member of the persisted settings
OverrideBool(current, member) ==
    IF member.t = "boolean" THEN member.b ELSE current

\* session_start, second part: the persisted members that are present
FromPersisted(o, p) ==
    IF ~p.isRecord THEN o
    ELSE [o EXCEPT
        !.unwrapOuterMarkdownFence =
            OverrideBool(@, p.unwrapOuterMarkdownFence),
        !.hideCodeFences = OverrideBool(@, p.hideCodeFences),
        !.showCodeFenceLanguageLabel =
            OverrideBool(@, p.showCodeFenceLanguageLabel),
        !.stripHeadingPrefixes = OverrideBool(@, p.stripHeadingPrefixes),
        !.codeBlockBgKey = IF p.codeBlockBgKey.t = "string"
                           THEN normalizeBgKey(p.codeBlockBgKey) ELSE @,
        !.codeBlockIndent = IF p.codeIndentSpaces.t = "number"
                            THEN Spaces(ClampIndent(p.codeIndentSpaces.n))
                            ELSE @]

\* session_start, third part: the background introducer; failed says the
\* theme did not know the key
DeriveBg(o) ==
    IF o.enabled /\ o.codeBlockBgKey # Undef
    THEN LET g == getBgAnsi(o.codeBlockBgKey)
         IN  IF g.ok
             THEN [options |-> [o EXCEPT !.codeBlockBgAnsi = g.ansi],
                   failed |-> FALSE]
             ELSE [options |-> [o EXCEPT !.codeBlockBgAnsi = Undef,
                                         !.codeBlockBgKey = Undef],
                   failed |-> TRUE]
    ELSE [options |-> [o EXCEPT !.codeBlockBgAnsi = Undef], failed |-> FALSE]

\* session_start up to the derived background: the options from the flags
\* f, the persisted settings of the branch, and the lookup of the key
ResolveOptions(o, f, ui, branch) ==
    DeriveBg(FromPersisted(FromFlags(o, f, ui),
                           readPersistedSettings(branch).tui))

SessionStart ==
    LET read == readPersistedSettings(log)
        d == ResolveOptions(options, flags, hasUI, log)
        o == d.options
    IN  /\ ~panelOpen
        /\ o.enabled => revision < MaxRevision
        /\ started' = TRUE
        /\ options' = o
        /\ theme' = FreezeThemes(theme, options)
        /\ inst' = FreezeInstances(inst, options)
        /\ patched' = (patched \/ o.enabled)
        /\ stateKeys' = StateKeys
        /\ originals' = getOriginals(stateKeys, originals, patched)
        /\ revision' = IF o.enabled
                       THEN BumpRevision(BackfillRevision(revision))
                       ELSE BackfillRevision(revision)
        /\ last' = [NoOp EXCEPT !.op = "session_start",
                                !.revBefore = revision,
                                !.warnings = IF d.failed /\ hasUI THEN 1 ELSE 0,
                                !.failed = d.failed,
                                !.read = read,
                                !.keysBefore = stateKeys]
        /\ hist' = IF o.enabled THEN NewRevision(hist) ELSE hist
        /\ cache' = Aged(cache, revision,
                         IF o.enabled
                         THEN BumpRevision(BackfillRevision(revision))
                         ELSE BackfillRevision(revision))
        /\ UNCHANGED <<hasUI, flags, panelOpen, log, pending, commits,
                       themeOf>>

\* a snapshot given to pi.appendEntry reaches the session log
FlushPersist ==
    /\ pending # <<>>
    /\ log' = Append(log, Entry("custom", SETTINGS_ENTRY_TYPE, Head(pending)))
    /\ pending' = Tail(pending)
    /\ last' = [NoOp EXCEPT !.op = "flush", !.revBefore = revision]
    /\ UNCHANGED <<hasUI, flags, started, patched, revision, options,
                   panelOpen, commits, stateKeys, originals, inst, theme,
                   cache, themeOf, hist>>

NextOver(args, changes, texts) ==
    \/ SessionStart
    \/ \E a \in args : Command(a[1], a[2])
    \/ \E c \in changes : PanelChange(c[1], c[2])
    \/ PanelClose
    \/ FlushPersist
    \/ \E i \in DOMAIN themeOf : Render(i)
    \/ \E i \in Streaming, t \in texts : SetText(i, t)

\* the program with every way of sharing themes and few settings
Init == InitOver(RenderSessions, ThemeConfigs)
Next == NextOver(RenderArgs, RenderPanelChanges, RenderTexts)
Spec == Init /\ [][Next]_vars

\* the fence unwrapper on its own: an enabled session has started, one
\* instance was built with any of the fence texts, and the host assigns and
\* renders
InitFence ==
    /\ hasUI = TRUE
    /\ flags = FlagsDefault
    /\ log = <<>>
    /\ started = TRUE
    /\ patched = TRUE
    /\ revision = BumpRevision(BackfillRevision(0))
    /\ options = ResolveOptions(defaults, FlagsDefault, TRUE, <<>>).options
    /\ panelOpen = FALSE
    /\ pending = <<>>
    /\ commits = 0
    /\ stateKeys = StateKeys
    /\ originals = getOriginals({}, EmptyOriginals, FALSE)
    /\ themeOf = (1 :> 1)
    /\ \E t \in FenceTexts : inst = (1 :> NewInstance(t))
    /\ theme = [k \in Themes |-> BaseTheme(k)]
    /\ cache = (1 :> NoCache)
    /\ hist = (1 :> NoHist)
    /\ last = NoOp

NextFence ==
    \/ \E t \in FenceTexts : SetText(1, t)
    \/ Render(1)

SpecFence == InitFence /\ [][NextFence]_vars

\* the theme functions at work: sessions with and without a background and
\* a label, one edit, and renders of code blocks
InitTheme == InitOver(ThemeSessions, ThemeConfigs)

NextTheme ==
    \/ SessionStart
    \/ \E a \in ThemeArgs : Command(a[1], a[2])
    \/ \E i \in DOMAIN themeOf, c \in StyledLines : RenderCode(i, c[1], c[2])

SpecTheme == InitTheme /\ [][NextTheme]_vars

\* tokens and list items: sessions with the patch enabled and disabled,
\* edits of the heading setting, assignments of text, and renders that
\* call renderToken and renderListItem
InitTokens == InitOver(TokenSessions, {(1 :> 1)})

NextTokens ==
    \/ SessionStart
    \/ \E a \in TokenArgs : Command(a[1], a[2])
    \/ \E t \in RenderTexts : SetText(1, t)
    \/ \E c \in BlockCalls : RenderBlock(1, c)

SpecTokens == InitTokens /\ [][NextTokens]_vars

\* print mode: the process with and without a UI, the flags of print
\* mode, and the end of an agent run with any of the conversations
InitPrint == InitOver(PrintSessions, {(1 :> 1)})

NextPrint ==
    \/ SessionStart
    \/ \E m \in MessageLists, l \in PrintLines : AgentEnd(m, l)

SpecPrint == InitPrint /\ [][NextPrint]_vars

\* the program with every setting and one instance
\* hot reloads: the process starts without a patch state, or the module is
\* loaded again into a process where an earlier load left its state, under
\* the old key only or under both keys, and its patch on the prototype
ReloadKeys == {{}, {"old"}, StateKeys}

ReloadCalls ==
    {TokenCall(Heading(1), "paragraph", 80, 1),
     TokenCall(Token("paragraph", 0, <<"a">>, FALSE), "", 80, 1),
     ItemCall(<<Token("text", 0, <<"a">>, TRUE)>>, 0, 80, 1)}

InitReload ==
    /\ hasUI \in BOOLEAN
    /\ \E c \in TokenSessions : flags = c[1] /\ log = c[2]
    /\ started = FALSE
    /\ stateKeys \in ReloadKeys
    /\ patched = (stateKeys # {})
    /\ revision = IF stateKeys # {} THEN BumpRevision(0) ELSE 0
    /\ options = defaults
    /\ originals = IF stateKeys # {}
                   THEN getOriginals({}, EmptyOriginals, FALSE)
                   ELSE EmptyOriginals
    /\ panelOpen = FALSE
    /\ pending = <<>>
    /\ commits = 0
    /\ themeOf = (1 :> 1)
    /\ inst = (1 :> NewInstance(Plain))
    /\ theme = [k \in Themes |-> BaseTheme(k)]
    /\ cache = (1 :> NoCache)
    /\ hist = (1 :> NoHist)
    /\ last = NoOp

NextReload ==
    \/ SessionStart
    \/ \E a \in TokenArgs : Command(a[1], a[2])
    \/ \E t \in RenderTexts : SetText(1, t)
    \/ \E c \in ReloadCalls : RenderBlock(1, c)

SpecReload == InitReload /\ [][NextReload]_vars

InitConfig == InitOver(SampleSessions, {(1 :> 1)})
NextConfig == NextOver(CommandArgs, PanelChanges, ConfigTexts)
SpecConfig == InitConfig /\ [][NextConfig]_vars

----------------------------------------------------------------------------
(* Properties *)

Slots == {"codeBlock", "codeBlockBorder", "highlightCode"}

\* no other instance was given the theme object of instance i
Alone(i) == \A j \in DOMAIN themeOf : j # i => themeOf[j] # themeOf[i]

\* slot holds exactly one wrapper, and the function inside it is base
OneWrapperOver(slot, base) ==
    /\ slot.def
    /\ Depth(slot) = Depth(base) + 1
    /\ \A k \in 1..Depth(base) : slot.layers[k] = base.layers[k]

\* C1: for an instance that has its theme to itself, after any renders and
\* revision changes no slot of the theme is wrapped more than once, and once
\* the instance has captured its originals each slot is exactly one wrapper
\* around the captured function, which is the function the theme came with
\* (a theme that came without highlightCode keeps it undefined).
C1_WrapperDepthOne ==
    \A i \in DOMAIN themeOf :
        Alone(i) =>
            \A f \in Slots :
                LET slot == theme[themeOf[i]][f]
                    base == inst[i].orig[f]
                IN  /\ Depth(slot) <= 1
                    /\ inst[i].orig.captured =>
                          /\ base = BaseTheme(themeOf[i])[f]
                          /\ IF base.def THEN OneWrapperOver(slot, base)
                             ELSE slot = base

\* C1 takes place: an instance alone on its theme installs the wrappers a
\* second time, after a revision change
C1_Rewrapped ==
    /\ last.op = "render"
    /\ last.rewrap
    /\ Alone(last.inst)
    /\ Depth(theme[themeOf[last.inst]].codeBlock) = 1

\* C2: a render of an instance that was already rendered since its last
\* setText and since the last change of the revision makes no call of
\* stripOuterMarkdownFence and installs no wrapper.
C2_RepeatRenderIdle ==
    (last.op = "render" /\ last.repeat) =>
        (last.strips = 0 /\ last.installs = 0)

\* C2 takes place: a second render at the same revision, patch enabled and
\* unwrapping on
C2_RenderedAgain ==
    /\ last.op = "render"
    /\ last.repeat
    /\ patched
    /\ options.enabled
    /\ options.unwrapOuterMarkdownFence
    /\ inst[last.inst].revApplied = revision

C4_RevisionMonotone ==
    /\ revision >= last.revBefore
    /\ last.committed => revision > last.revBefore

\* C4 takes place: a /render-md edit was committed in a process whose
\* revision had already been counted up
C4_Committed ==
    /\ last.op = "command"
    /\ last.committed
    /\ last.revBefore >= 1

C7_SingleFenceStripped ==
    \A i \in DOMAIN themeOf :
        hist[i].assigned >= 2 =>
            FenceLayers(inst[i].text) = hist[i].assigned - 1

\* the decisions the wrappers take from the options they read
Decisions(o) ==
    <<o.enabled, o.hideCodeFences, o.showCodeFenceLanguageLabel,
      o.codeBlockBgAnsi>>

\* C8 as the specification states it: when a render that follows a commit
\* returns, the indent of the theme is the one of the current options and
\* every wrapper that acts in the codeBlock, codeBlockBorder and
\* highlightCode slots of the theme decides by the current options.
C8_RenderUsesCommitted ==
    (last.op = "render" /\ commits > 0 /\ patched /\ options.enabled) =>
        LET th == theme[themeOf[last.inst]]
        IN  /\ th.codeBlockIndent = Str(ThemeIndent(options))
            /\ \A f \in Slots :
                  \A k \in 1..Depth(th[f]) :
                      Decisions(LayerOptions(th[f].layers[k]))
                          = Decisions(options)

\* the entries of the log readPersistedSettings accepts
Matching ==
    {k \in 1..Len(log) :
        /\ log[k].type = "custom"
        /\ log[k].customType \in {SETTINGS_ENTRY_TYPE,
                                  LEGACY_SETTINGS_ENTRY_TYPE}}

\* the data of the last of them, if it is an object
LatestData ==
    IF Matching = {} THEN NoData
    ELSE LET k == CHOOSE m \in Matching : \A j \in Matching : m >= j
         IN  IF log[k].data.isRecord THEN log[k].data ELSE NoData

\* persisted member if it is a boolean, otherwise the flag as parsed, with
\* the built-in default for a flag that does not parse
Precedence(member, flag, default) ==
    IF member.t = "boolean" THEN member.b
    ELSE parseOnOff(JStr(flag), default)

\* the background key and the indent by the same precedence, normalised
PrecedenceKey ==
    IF LatestData.tui.codeBlockBgKey.t = "string"
    THEN normalizeBgKey(LatestData.tui.codeBlockBgKey)
    ELSE normalizeBgKey(JStr(flags.codeBg))

PrecedenceIndent ==
    IF LatestData.tui.codeIndentSpaces.t = "number"
    THEN Spaces(ClampIndent(LatestData.tui.codeIndentSpaces.n))
    ELSE LET n == parseInt(flags.codeIndent)
         IN  Spaces(IF n.ok THEN ClampIndent(n.n)
                    ELSE Len(defaults.codeBlockIndent))

PrecedenceBooleans ==
    /\ options.unwrapOuterMarkdownFence =
          Precedence(LatestData.tui.unwrapOuterMarkdownFence, flags.unfence,
                     defaults.unwrapOuterMarkdownFence)
    /\ options.hideCodeFences =
          Precedence(LatestData.tui.hideCodeFences, flags.hideFences,
                     defaults.hideCodeFences)
    /\ options.showCodeFenceLanguageLabel =
          Precedence(LatestData.tui.showCodeFenceLanguageLabel,
                     flags.codeLabel, defaults.showCodeFenceLanguageLabel)
    /\ options.stripHeadingPrefixes =
          Precedence(LatestData.tui.stripHeadingPrefixes,
                     flags.stripHeadingPrefix, defaults.stripHeadingPrefixes)

\* C9 as the specification states it: after session_start every field is
\* the value of the latest persisted snapshot if it is there with the right
\* type, otherwise the parsed flag, otherwise the default; nothing else,
\* an unpersisted live edit included, has a say.
C9_Precedence ==
    last.op = "session_start" =>
        /\ PrecedenceBooleans
        /\ options.codeBlockIndent = PrecedenceIndent
        /\ options.codeBlockBgKey = PrecedenceKey

\* C9 amended: the booleans follow the precedence; the indent follows it
\* after truncation and clamping to 0..8; the background key follows it
\* after normalisation (trimmed, the words for "off" meaning no key), and
\* is cleared when the patch is enabled and the theme does not know the key.
C9_PrecedenceWithLookup ==
    last.op = "session_start" =>
        /\ PrecedenceBooleans
        /\ options.codeBlockIndent = PrecedenceIndent
        /\ options.codeBlockBgKey =
              IF options.enabled /\ PrecedenceKey \notin ThemeBgKeys
              THEN Undef ELSE PrecedenceKey

\* C9 takes place: session_start ran while a committed edit had not reached
\* the log, and the options are no longer the ones that edit left
C9_EditNotSurvived ==
    /\ last.op = "session_start"
    /\ commits > 0
    /\ pending # <<>>
    /\ Snapshot(options) # pending[Len(pending)]
    /\ LatestData.isRecord

\* C10: readPersistedSettings gives the data of the last entry of the log
\* that carries the current or the legacy identifier (nothing if that data
\* is no object); members of earlier entries are not merged in: a boolean
\* the last entry lacks comes from the flag.
C10_LatestEntryOnly ==
    last.op = "session_start" =>
        /\ last.read = LatestData
        /\ PrecedenceBooleans

\* C10 takes place: the last matching entry lacks the unfence member, an
\* earlier matching entry has it, and the option follows the flag against
\* that earlier entry
C10_EarlierEntryIgnored ==
    /\ last.op = "session_start"
    /\ Cardinality(Matching) >= 2
    /\ last.read.isRecord
    /\ last.read.tui.unwrapOuterMarkdownFence.t # "boolean"
    /\ \E k \in Matching :
          /\ log[k].data.tui.unwrapOuterMarkdownFence.t = "boolean"
          /\ log[k].data.tui.unwrapOuterMarkdownFence.b
                # options.unwrapOuterMarkdownFence

\* the fields a snapshot carries
Persistent(o) ==
    <<o.unwrapOuterMarkdownFence, o.hideCodeFences,
      o.showCodeFenceLanguageLabel, o.stripHeadingPrefixes,
      o.codeBlockBgKey, o.codeBlockIndent>>

\* the options of a session_start, under the flags f, of a session whose
\* log ends with the snapshot data
Restored(f, ui, data) ==
    ResolveOptions(defaults, f, ui,
                   <<EntryOther, Entry("custom", SETTINGS_ENTRY_TYPE, data)>>)
        .options

\* the flags a later process may be started with
RestoreFlags == {FlagsDefault, FlagsCustom, FlagsNoTui}

\* C11 as the specification states it: the snapshot a commit writes, read
\* back by a session_start under any flags, gives the unwrap, hide-fences,
\* label, strip-headings, background-key and indent values that were
\* committed.
C11_RoundTrip ==
    last.committed =>
        \A f \in RestoreFlags, ui \in BOOLEAN :
            Persistent(Restored(f, ui, pending[Len(pending)]))
                = Persistent(options)

\* C11 amended: the four booleans and the indent are reproduced under any
\* flags; the background key is reproduced unless the theme does not know
\* it and the patch is enabled in the session that reads it back, where it
\* comes back unset.
C11_RoundTripKnownKey ==
    last.committed =>
        \A f \in RestoreFlags, ui \in BOOLEAN :
            LET r == Restored(f, ui, pending[Len(pending)])
                lost == /\ r.enabled
                        /\ options.codeBlockBgKey # Undef
                        /\ options.codeBlockBgKey \notin ThemeBgKeys
            IN  Persistent(r) =
                    Persistent([options EXCEPT !.codeBlockBgKey =
                                    IF lost THEN Undef ELSE @])

\* C11 takes place: an edit was committed with no background key and an
\* indent that differs from the one of the flags, and the snapshot waits
\* to be written
C11_Snapshotted ==
    /\ last.committed
    /\ pending # <<>>
    /\ pending[Len(pending)].tui.codeBlockBgKey = JStr(Off)
    /\ normalizeBgKey(JStr(flags.codeBg)) # Undef
    /\ options.codeBlockIndent
          # parseIndentSpaces(JStr(flags.codeIndent), 4)

\* C12 as the specification states it: in every state the derived value is
\* undefined exactly when the key is unset or the theme does not know it.
C12_AnsiIffKey ==
    (options.codeBlockBgAnsi = Undef) <=>
        (options.codeBlockBgKey = Undef
            \/ ~getBgAnsi(options.codeBlockBgKey).ok)

\* C12 amended: a derived value is always the one the theme gives for the
\* current key; once session_start has run with the patch enabled, the
\* derived value is undefined exactly when the key is unset, and a set key
\* is one the theme knows.  Before the first session_start and with the
\* patch disabled the derived value can be undefined under a set key.
C12_AnsiFollowsKey ==
    /\ options.codeBlockBgAnsi # Undef =>
          /\ getBgAnsi(options.codeBlockBgKey).ok
          /\ options.codeBlockBgAnsi = getBgAnsi(options.codeBlockBgKey).ansi
    /\ (started /\ options.enabled) =>
          /\ (options.codeBlockBgAnsi = Undef) <=>
                (options.codeBlockBgKey = Undef)
          /\ options.codeBlockBgKey \in ThemeBgKeys \cup {Undef}

\* C12 takes place: a live edit in an enabled session left a key and its
\* derived value that neither the defaults nor the flags name
C12_KeyEdited ==
    /\ last.op \in {"command", "panel"}
    /\ last.committed
    /\ options.enabled
    /\ options.codeBlockBgKey = KeySelectedBg
    /\ options.codeBlockBgAnsi = getBgAnsi(KeySelectedBg).ansi
    /\ log = <<>>

\* C13 as the specification states it: when the theme does not know the
\* background key, at session_start or in a live edit, the key and the
\* derived value are cleared, exactly one warning is sent, and an edit is
\* committed all the same.
C13_LookupFailureWarns ==
    last.failed =>
        /\ options.codeBlockBgKey = Undef
        /\ options.codeBlockBgAnsi = Undef
        /\ last.warnings = 1
        /\ last.op \in {"command", "panel"} => last.committed

\* the tag of the opening line, in any case
IsTag(w) == toLowerCase(w) \in {TagMd, TagMarkdown}

\* blanks that stay on the line
IsBlank(c) == c \in {"sp", "tab"}

\* a line break ends at position k of t: where it begins
BreakStarts(t, k) ==
    IF k < 1 \/ k > Len(t) \/ t[k] # "nl" THEN {}
    ELSE IF k >= 2 /\ t[k - 1] = "cr" THEN {k, k - 1}
    ELSE {k}

\* the contents B for which the trimmed text t reads: three backticks,
\* blanks, the tag, a line break, B, a line break, three backticks
LineShapeBodies(t) ==
    LET n == Len(t)
    IN  {SubSeq(t, s, e) : <<s, e>> \in
            {x \in (1..(n + 1)) \X (0..n) :
                /\ x[1] <= x[2] + 1
                /\ n >= 6
                /\ SubSeq(t, 1, 3) = Fence3
                /\ SubSeq(t, n - 2, n) = Fence3
                /\ x[2] + 1 \in BreakStarts(t, n - 3)
                /\ \E b \in BreakStarts(t, x[1] - 1), p \in 4..(x[1] - 1) :
                      /\ \A j \in 4..(p - 1) : IsBlank(t[j])
                      /\ p <= b - 1
                      /\ IsTag(SubSeq(t, p, b - 1))}}

\* C14 as the specification states it: setText with unwrapping on assigns
\* B when the trimmed argument is an opening line of three backticks,
\* blanks and the tag, a line break, B, a line break and a closing line of
\* three backticks; any other argument is assigned unchanged.
C14_LineShape ==
    (last.op = "setText" /\ last.strips = 1) =>
        IF LineShapeBodies(trim(last.arg)) = {}
        THEN inst[last.inst].text = last.arg
        ELSE inst[last.inst].text \in LineShapeBodies(trim(last.arg))

\* the contents for which the trimmed text t reads: three backticks, any
\* whitespace, the tag, any whitespace that ends in a line feed, the
\* content, a line feed with or without a carriage return before it, three
\* backticks; as <<first, last>> positions
OuterFenceBodies(t) ==
    LET n == Len(t)
    IN  {x \in (1..(n + 1)) \X (0..n) :
            /\ x[1] <= x[2] + 1
            /\ n >= 6
            /\ SubSeq(t, 1, 3) = Fence3
            /\ SubSeq(t, n - 2, n) = Fence3
            /\ x[2] + 1 \in BreakStarts(t, n - 3)
            /\ x[1] >= 2
            /\ t[x[1] - 1] = "nl"
            /\ \E p \in 4..(x[1] - 1), q \in 4..(x[1] - 1) :
                  /\ p <= q
                  /\ \A j \in 4..(p - 1) : IsWs(t[j])
                  /\ IsTag(SubSeq(t, p, q))
                  /\ \A j \in (q + 1)..(x[1] - 1) : IsWs(t[j])}

\* C14 amended: the argument is unwrapped exactly when its trimmed text has
\* an outer fence in the wider sense above (whitespace, line breaks
\* included, may stand before and after the tag); the content assigned is
\* the one that starts latest, after all blank lines that follow the
\* opening line, and of those the one that ends earliest, before the
\* carriage return of the closing line break; any other argument is
\* assigned unchanged.
C14_OuterFence ==
    (last.op = "setText" /\ last.strips = 1) =>
        LET t == trim(last.arg)
            c == OuterFenceBodies(t)
        IN  IF c = {} THEN inst[last.inst].text = last.arg
            ELSE \E x \in c :
                    /\ \A y \in c : y[1] <= x[1]
                    /\ \A y \in c : y[1] = x[1] => x[2] <= y[2]
                    /\ inst[last.inst].text = SubSeq(t, x[1], x[2])

\* C14 takes place: an argument written with a capital in the tag and a
\* blank line after the opening line was unwrapped to its content
C14_Unwrapped ==
    /\ last.op = "setText"
    /\ last.strips = 1
    /\ last.arg = Fence3 \o <<"M", "d", "nl", "nl">> \o Plain
                      \o <<"nl">> \o Fence3
    /\ inst[last.inst].text = Plain


----------------------------------------------------------------------------
(* The wrapped theme functions *)

\* the last operation was a render by the patched prototype with the patch
\* enabled that handed a line to slot f: the function called is a wrapper
\* this render installed or kept, and it reads the current options
CalledWrapped(f) ==
    /\ last.op = "render"
    /\ last.slot = f
    /\ patched
    /\ options.enabled

\* what the function inside the wrapper that was called returns for x
OriginalOut(x) ==
    CallSlot(theme[themeOf[last.inst]], themeOf[last.inst], last.slot,
             Depth(theme[themeOf[last.inst]][last.slot]) - 1, x)

\* s begins with p
StartsWith(s, p) == Len(s) >= Len(p) /\ SubSeq(s, 1, Len(p)) = p

\* C15: with a background set, what the codeBlock and highlightCode
\* wrappers return begins with the background introducer, every full reset
\* in it is immediately followed by the introducer and no background reset
\* is left in it; with no background set they return what the wrapped
\* function returned.
C15_ResetSafe ==
    \A f \in {"codeBlock", "highlightCode"} :
        CalledWrapped(f) =>
            IF options.codeBlockBgAnsi = Undef
            THEN last.out = OriginalOut(last.arg)
            ELSE /\ StartsWith(last.out, options.codeBlockBgAnsi)
                 /\ \A p \in 1..Len(last.out) :
                        /\ last.out[p] # BgReset
                        /\ last.out[p] = FullReset =>
                               StartsWith(SubSeq(last.out, p + 1,
                                                 Len(last.out)),
                                          options.codeBlockBgAnsi)

\* a line with a background reset and a full reset went through the
\* codeBlock wrapper of a shared theme with a background set
C15_ResetsReapplied ==
    /\ CalledWrapped("codeBlock")
    /\ options.codeBlockBgAnsi # Undef
    /\ last.arg = <<"x", "ESC[49m", "ESC[0m">>
    /\ ~Alone(last.inst)

\* three consecutive backticks occur in s
HasFence(s) == \E p \in 1..Len(s) : StartsWith(SubSeq(s, p, Len(s)), Fence3)

\* the bare background introducer, or the empty string without background
BareBg == IF options.codeBlockBgAnsi = Undef THEN <<>>
          ELSE options.codeBlockBgAnsi

\* the indent the theme holds when the wrapper is called
ActiveIndent ==
    IF theme[themeOf[last.inst]].codeBlockIndent.def
    THEN theme[themeOf[last.inst]].codeBlockIndent.s
    ELSE Spaces(2)

\* C16: the wrapped codeBlockBorder(t) returns the background applied to
\* the original border of t when fence hiding is off or t does not start
\* with three backticks; for a closing fence, and for an opening fence with
\* the label off, the bare introducer (the empty string without
\* background); for an opening fence with the label on, the background
\* applied to the indent followed by the original border of the label; and
\* with hiding on no result for a fence line contains three backticks.
C16_BorderTable ==
    CalledWrapped("codeBlockBorder") =>
        /\ (~options.hideCodeFences \/ ~StartsWith(last.arg, Fence3)) =>
               last.out = applyCodeBg(options, OriginalOut(last.arg))
        /\ (options.hideCodeFences /\ StartsWith(last.arg, Fence3)) =>
               /\ ~HasFence(last.out)
               /\ IF \/ \A p \in 4..Len(last.arg) : IsWs(last.arg[p])
                     \/ ~options.showCodeFenceLanguageLabel
                  THEN last.out = BareBg
                  ELSE last.out =
                           applyCodeBg(options,
                               ActiveIndent
                                   \o OriginalOut(
                                          Label(trim(SubSeq(last.arg, 4,
                                                     Len(last.arg))))))

\* an opening fence with a language went through the border wrapper with
\* the label on and a background set
C16_LabelShown ==
    /\ CalledWrapped("codeBlockBorder")
    /\ options.hideCodeFences
    /\ options.showCodeFenceLanguageLabel
    /\ options.codeBlockBgAnsi # Undef
    /\ last.arg = Fence3 \o <<"sp", "j", "s", "sp">>
    /\ StartsWith(last.out, options.codeBlockBgAnsi \o options.codeBlockBgAnsi)


\* C17 as the specification states it: after every render of an enabled
\* instance theme.codeBlockIndent is the configured indent, preceded by the
\* background introducer whenever a background is active, for every indent
\* width 0..8.
C17_IndentWithBg ==
    (last.op = "render" /\ patched /\ options.enabled) =>
        theme[themeOf[last.inst]].codeBlockIndent
            = Str(options.codeBlockBgAnsi \o options.codeBlockIndent)

\* C17: after every render of an enabled instance theme.codeBlockIndent is
\* the configured indent, preceded by the background introducer when a
\* background is active and the indent is not empty; with the indent width
\* 0 it is the empty string, with or without a background.
C17_IndentWithBgUnlessEmpty ==
    (last.op = "render" /\ patched /\ options.enabled) =>
        theme[themeOf[last.inst]].codeBlockIndent
            = Str(IF options.codeBlockBgAnsi # Undef
                     /\ Len(options.codeBlockIndent) > 0
                  THEN options.codeBlockBgAnsi \o options.codeBlockIndent
                  ELSE options.codeBlockIndent)

\* an enabled instance was rendered with a background active and the
\* indent width 0
C17_EmptyIndentRendered ==
    /\ last.op = "render"
    /\ patched
    /\ options.enabled
    /\ options.codeBlockBgAnsi # Undef
    /\ options.codeBlockIndent = Spaces(0)
    /\ theme[themeOf[last.inst]].codeBlockIndent = Str(<<>>)


\* C18: Options.codeBlockIndent is always a string of 0 to 8 spaces.
C18_IndentInRange ==
    \E n \in 0..8 : options.codeBlockIndent = Spaces(n)

\* a session started with the flag value 12 for the indent and holds 8
\* spaces
C18_FlagClamped ==
    /\ last.op = "session_start"
    /\ flags.codeIndent = <<"1", "2">>
    /\ options.codeBlockIndent = Spaces(8)


\* C19: a live indent edit with a value that is no number (abc) does not
\* raise: it warns once, commits nothing and leaves the indent and every
\* other field of Options as they were.
C19_NonNumericIndentIgnored ==
    [][Command("indent", <<"a", "b", "c">>) =>
           /\ options' = options
           /\ pending' = pending
           /\ commits' = commits
           /\ last'.op = "command"
           /\ ~last'.committed
           /\ hasUI => last'.warnings = 1]_vars

\* the indent edit abc was rejected in a session that runs with the
\* indent 8
C19_RejectedKeepsIndent ==
    /\ last.op = "command"
    /\ last.warnings = 1
    /\ ~last.committed
    /\ options.codeBlockIndent = Spaces(8)

\* C20 as the specification states it: a live indent edit with a number
\* outside 0..8 leaves the indent at its previous value.
C20_OutOfRangeFallsBack ==
    [][(\/ Command("indent", <<"1", "2">>)
        \/ Command("indent", <<"-", "3">>)) =>
           options'.codeBlockIndent = options.codeBlockIndent]_vars

\* C20: a live indent edit with a number outside 0..8 is clamped and
\* committed: with the terminal UI the indent becomes 8 spaces for 12 and
\* the empty string for -3, whatever it was before, and no other field of
\* Options changes.
C20_OutOfRangeClamped ==
    [][/\ (hasUI /\ Command("indent", <<"1", "2">>)) =>
              /\ options' = [options EXCEPT !.codeBlockIndent = Spaces(8)]
              /\ last'.committed
       /\ (hasUI /\ Command("indent", <<"-", "3">>)) =>
              /\ options' = [options EXCEPT !.codeBlockIndent = Spaces(0)]
              /\ last'.committed]_vars

\* an indent edit was committed in a session that started with four
\* spaces, and the indent is 8 spaces: the value 12, clamped
C20_ClampedEdit ==
    /\ last.op = "command"
    /\ last.committed
    /\ flags = FlagsDefault
    /\ log = <<>>
    /\ options.codeBlockIndent = Spaces(8)


----------------------------------------------------------------------------
(* Live edits *)

\* the fields of Options an edit names
Named(id) ==
    IF id \in {"label", "code-label"} THEN {"showCodeFenceLanguageLabel"}
    ELSE IF id = "hide-fences" THEN {"hideCodeFences"}
    ELSE IF id = "unfence" THEN {"unwrapOuterMarkdownFence"}
    ELSE IF id = "headings" THEN {"stripHeadingPrefixes"}
    ELSE IF id \in {"indent", "code-indent"} THEN {"codeBlockIndent"}
    ELSE IF id \in {"bg", "code-bg"}
    THEN {"codeBlockBgKey", "codeBlockBgAnsi"}
    ELSE {}

\* the fields in which the options o and p differ
Changed(o, p) == {f \in DOMAIN o : o[f] # p[f]}

\* the introducer the theme gives for the key of o, if it gives one
Derived(o) ==
    IF o.codeBlockBgKey = Undef THEN Undef
    ELSE getBgAnsi(o.codeBlockBgKey).ansi

\* C21: a committed /render-md subcommand or settings-panel change modifies
\* only the field of Options it names; a background edit in addition
\* derives codeBlockBgAnsi from the key again; every other field, enabled
\* included, keeps its value.
C21_SingleFieldEdit ==
    [][/\ \A a \in CommandArgs :
              (Command(a[1], a[2]) /\ last'.committed) =>
                  /\ Changed(options, options') \subseteq Named(a[1])
                  /\ a[1] = "bg" =>
                         options'.codeBlockBgAnsi = Derived(options')
       /\ \A c \in PanelChanges :
              PanelChange(c[1], c[2]) =>
                  /\ Changed(options, options') \subseteq Named(c[1])
                  /\ c[1] = "code-bg" =>
                         options'.codeBlockBgAnsi = Derived(options')]_vars

\* an edit was committed in a session that runs with the patch disabled
\* and with settings that are not the defaults
C21_EditedWhileDisabled ==
    /\ last.op = "command"
    /\ last.committed
    /\ ~options.enabled
    /\ ~options.unwrapOuterMarkdownFence
    /\ options.codeBlockIndent = Spaces(2)


----------------------------------------------------------------------------
(* Tokens, headings and list items *)

\* what the original method returns for the arguments of the call c
OriginalOf(c) ==
    IF c.m = "renderToken"
    THEN <<OriginalToken(c.tok, ContentWidth(c.width, c.paddingX), c.next)>>
    ELSE <<OriginalItem(c.toks, c.depth)>>

\* C22: while the patch is disabled, the patched render leaves the text of
\* the instance and every theme slot as they are, and the renderToken or
\* renderListItem call made during it returns what the original method
\* returns for the same arguments; the patched setText stores the text it
\* was given and leaves the theme alone; and with the patch enabled and
\* heading-strip off every heading token goes to the original renderToken
\* unchanged.
C22_DisabledDelegates ==
    [][/\ (patched /\ ~options.enabled /\ last'.op = "render") =>
              /\ inst'[last'.inst].text = inst[last'.inst].text
              /\ theme' = theme
              /\ last'.call.m # "" => last'.out = OriginalOf(last'.call)
       /\ (patched /\ ~options.enabled /\ last'.op = "setText") =>
              /\ inst'[last'.inst].text = last'.arg
              /\ theme' = theme
       /\ (/\ patched
           /\ ~options.stripHeadingPrefixes
           /\ last'.op = "render"
           /\ last'.call.m = "renderToken"
           /\ last'.call.tok.type = "heading") =>
              last'.out = OriginalOf(last'.call)]_vars

\* a list item with a heading among its children was rendered by the
\* patched prototype with the patch disabled
C22_DisabledListItem ==
    /\ last.op = "render"
    /\ patched
    /\ ~options.enabled
    /\ last.call.m = "renderListItem"
    /\ \E k \in 1..Len(last.call.toks) : last.call.toks[k].type = "heading"
    /\ last.out = <<OriginalItem(last.call.toks, last.call.depth)>>


\* the last operation was a render by the patched prototype with the patch
\* enabled and heading-strip on, during which renderToken got a heading
HeadingStripped ==
    /\ last.op = "render"
    /\ patched
    /\ options.enabled
    /\ options.stripHeadingPrefixes
    /\ last.call.m = "renderToken"
    /\ last.call.tok.type = "heading"

\* the styles applied to a line, and how often c occurs in a text
StylesOf(l) == {l.styles[k] : k \in 1..Len(l.styles)}
Count(s, c) == Cardinality({k \in 1..Len(s) : s[k] = c})

\* C23: with heading-strip on the line of a heading is bold at every depth
\* and underlined at depth 1 only; its text is the rendered heading text,
\* at depth d >= 3 after exactly 2*(d-3) spaces (none at depth 3, more at
\* every deeper level); and the line has no number sign that the heading
\* text does not have.
C23_HeadingStyle ==
    HeadingStripped =>
        LET line == last.out[1]
            text == renderInlineTokens(last.call.tok)
            d == last.call.tok.depth
        IN  /\ line.kind = "line"
            /\ "bold" \in StylesOf(line)
            /\ ("underline" \in StylesOf(line)) <=> (d = 1)
            /\ line.s = (IF d >= 3 THEN Spaces(2 * (d - 3)) ELSE <<>>)
                            \o text
            /\ Count(line.s, "#") = Count(text, "#")
            /\ Count(line.s, "sp") = (IF d >= 3 THEN 2 * (d - 3) ELSE 0)

\* a heading of depth 6 was rendered with six leading spaces
C23_DeepHeading ==
    /\ HeadingStripped
    /\ last.call.tok.depth = 6
    /\ SubSeq(last.out[1].s, 1, 6) = Spaces(6)

\* C24: with heading-strip on, a heading token yields exactly one styled
\* line followed by exactly one empty line, and the styled line alone when
\* the next token is of type space; the same holds for a heading among the
\* children of a list item, with the type of the next child.
C24_HeadingLines ==
    /\ HeadingStripped =>
           last.out = <<StyledHeading(last.call.tok)>>
                          \o (IF last.call.next = "space" THEN <<>>
                              ELSE <<OutLine(<<>>, <<>>)>>)
    /\ (/\ last.op = "render"
        /\ patched
        /\ options.enabled
        /\ options.stripHeadingPrefixes
        /\ last.call.m = "renderListItem") =>
           \A k \in 1..Len(last.call.toks) :
               last.call.toks[k].type = "heading" =>
                   \E p \in 1..Len(last.out) :
                       /\ last.out[p] = StyledHeading(last.call.toks[k])
                       /\ Cardinality({q \in 1..Len(last.out) :
                              last.out[q].styles # <<>>
                              /\ last.out[q] = last.out[p]}) = 1
                       /\ IF NextType(last.call.toks, k) = "space"
                          THEN p < Len(last.out)
                               => last.out[p + 1] # OutLine(<<>>, <<>>)
                          ELSE /\ p < Len(last.out)
                               /\ last.out[p + 1] = OutLine(<<>>, <<>>)
                               /\ p + 1 < Len(last.out)
                                  => last.out[p + 2] # OutLine(<<>>, <<>>)

\* a list item whose heading is followed by a space token was rendered:
\* the heading line is followed by the lines of the space token
C24_HeadingBeforeSpace ==
    /\ last.op = "render"
    /\ patched
    /\ options.enabled
    /\ options.stripHeadingPrefixes
    /\ last.call.m = "renderListItem"
    /\ \E k \in 1..Len(last.call.toks), p \in 1..Len(last.out) :
           /\ last.call.toks[k].type = "heading"
           /\ NextType(last.call.toks, k) = "space"
           /\ last.out[p] = StyledHeading(last.call.toks[k])
           /\ p < Len(last.out)
           /\ last.out[p + 1].kind = "renderToken"


\* the last operation was a render by the patched prototype with the patch
\* enabled during which renderListItem was called
ItemRendered ==
    /\ last.op = "render"
    /\ patched
    /\ options.enabled
    /\ last.call.m = "renderListItem"

\* the block width of the list item of the last call
ItemBlockWidth ==
    BlockWidth(ContentWidth(last.call.width, last.call.paddingX),
               last.call.depth)

\* what the child k of the list item contributes
Contribution(k) ==
    LET tok == last.call.toks[k]
    IN  IF tok.type = "list"
        THEN <<RenderListLines(tok, last.call.depth + 1)>>
        ELSE IF tok.type \in {"text", "paragraph"}
        THEN <<OutLine(<<>>, IF tok.type = "text" /\ ~tok.inline
                             THEN tok.text
                             ELSE renderInlineTokens(tok))>>
        ELSE renderToken(TRUE, options, tok, ItemBlockWidth,
                         NextType(last.call.toks, k))

\* the contributions of the children from k on, one after the other
RECURSIVE InOrder(_)
InOrder(k) ==
    IF k > Len(last.call.toks) THEN <<>>
    ELSE Contribution(k) \o InOrder(k + 1)

\* C25: the patched renderListItem returns the output of its children in
\* their order: a list child gives the lines of the list renderer at
\* parentDepth + 1, a text or paragraph child exactly one line, and every
\* other child (table, blockquote, code block, heading, thematic break,
\* space) the lines renderToken returns for it at the block width with the
\* type of the next child.
C25_ChildrenInOrder ==
    ItemRendered =>
        /\ last.out = InOrder(1)
        /\ \A k \in 1..Len(last.call.toks) :
               last.call.toks[k].type \in {"text", "paragraph"} =>
                   /\ Len(Contribution(k)) = 1
                   /\ Contribution(k)[1].kind = "line"

\* a list item with a text, a nested list and a table was rendered at
\* parentDepth 1: three elements, the list at depth 2 in the middle
C25_MixedChildren ==
    /\ ItemRendered
    /\ last.call.depth = 1
    /\ Len(last.out) = 3
    /\ last.out[1].kind = "line"
    /\ last.out[2].kind = "renderList"
    /\ last.out[2].depth = 2
    /\ last.out[3].kind = "renderToken"

\* C26: block content nested in a list item is rendered at the width
\* max(20, fullContentWidth - (2*parentDepth + 2)) with fullContentWidth =
\* max(1, width - 2*paddingX) of the render call, which is never below 20.
C26_BlockWidth ==
    ItemRendered =>
        LET full == IF last.call.width - 2 * last.call.paddingX >= 1
                    THEN last.call.width - 2 * last.call.paddingX ELSE 1
            rest == full - (2 * last.call.depth + 2)
        IN  \A p \in 1..Len(last.out) :
                last.out[p].kind = "renderToken" =>
                    /\ last.out[p].width = (IF rest >= 20 THEN rest ELSE 20)
                    /\ last.out[p].width >= 20

\* a table in a list item at parentDepth 4 was rendered in a render call of
\* width 3 with paddingX 2: its width is 20
C26_NarrowRender ==
    /\ ItemRendered
    /\ last.call.width = 3
    /\ last.call.paddingX = 2
    /\ last.call.depth = 4
    /\ \E p \in 1..Len(last.out) :
           /\ last.out[p].kind = "renderToken"
           /\ last.out[p].tok.type = "table"
           /\ last.out[p].width = 20


----------------------------------------------------------------------------
(* Print mode *)

\* the agent_end handler rendered: it stored the text it replaced
Rewrote == last.op = "agent_end" /\ last.stored # <<>>

\* the text the handler wrote into the last assistant message
PrintedText ==
    LET content == last.after[findLastAssistantMessage(last.after)].content
        t == {k \in 1..Len(content) : content[k].type = "text"}
    IN  content[CHOOSE k \in t : \A j \in t : k <= j].text

\* the line l consists of whitespace only
AllWs(l) == \A k \in 1..Len(l) : IsWs(l[k])

\* the line l without the whitespace at its end
WithoutEnd(l) ==
    SubSeq(l, 1, CHOOSE p \in 0..Len(l) :
                     /\ \A j \in (p + 1)..Len(l) : IsWs(l[j])
                     /\ p > 0 => ~IsWs(l[p]))

\* C27: the string of the print-mode renderer has no line that ends in
\* whitespace and does not end with a blank line, whatever lines the
\* underlying renderer produced; it is the lines up to the last one that
\* is not blank, each without its trailing whitespace, in their order.
C27_PrintTrimmed ==
    Rewrote =>
        /\ \A k \in 1..Len(PrintedText) :
               IsWs(PrintedText[k]) =>
                   /\ k < Len(PrintedText)
                   /\ PrintedText[k] # "nl" => PrintedText[k + 1] # "nl"
        /\ \E n \in 0..Len(last.lines) :
               /\ \A k \in (n + 1)..Len(last.lines) : AllWs(last.lines[k])
               /\ n > 0 => ~AllWs(last.lines[n])
               /\ PrintedText = Join([k \in 1..n |->
                                         WithoutEnd(last.lines[k])])

\* five lines were rendered, the last two blank and one in the middle
\* empty: the printed text keeps three lines
C27_TrailingBlankDropped ==
    /\ Rewrote
    /\ Len(last.lines) = 5
    /\ PrintedText = <<"A", "nl", "nl", "sp", "B">>

\* the text blocks of the message m hold whitespace only
BlankText(m) ==
    \A k \in 1..Len(m.content) :
        m.content[k].type = "text" => AllWs(m.content[k].text)

\* C28: the agent_end handler leaves every message as it is when a UI is
\* present, the mode is json or rpc, the commonmark flag is not true,
\* no-commonmark is true, the last assistant message has a tool call or
\* its text is blank; and whenever it changes something, it changes the
\* last assistant message only.
C28_AgentEndFrame ==
    last.op = "agent_end" =>
        LET a == {k \in 1..Len(last.messages) :
                     last.messages[k].role = "assistant"}
        IN  /\ Len(last.after) = Len(last.messages)
            /\ \A k \in 1..Len(last.messages) :
                   (\E j \in a : j > k) \/ k \notin a =>
                       last.after[k] = last.messages[k]
            /\ (\/ hasUI
                \/ flags.mode \in {"json", "rpc"}
                \/ ~flags.commonmark
                \/ flags.noCommonmark
                \/ \E k \in a :
                       /\ \A j \in a : j <= k
                       /\ \/ \E b \in 1..Len(last.messages[k].content) :
                                 last.messages[k].content[b].type
                                     = "toolCall"
                          \/ BlankText(last.messages[k])) =>
                   last.after = last.messages

\* the handler rewrote the last of two assistant messages, and the first
\* one, which has a tool call, is as it was
C28_LastRewritten ==
    /\ Rewrote
    /\ Len(last.messages) = 4
    /\ hasToolCalls(last.messages[1])
    /\ last.after[1] = last.messages[1]
    /\ last.after[3] # last.messages[3]


----------------------------------------------------------------------------
(* Shared themes and the prototype *)

\* C29 as the specification states it: also when several instances share
\* one theme object, under any interleaving of their renders and revision
\* changes each slot of a theme holds at most one wrapper, and what an
\* instance captured as originals is the function the theme came with,
\* never another instance's wrapper.
C29_SharedDepthOne ==
    /\ \A k \in Themes, f \in Slots : Depth(theme[k][f]) <= 1
    /\ \A i \in DOMAIN themeOf, f \in Slots :
           inst[i].orig.captured =>
               inst[i].orig[f] = BaseTheme(themeOf[i])[f]

\* the method of the call c hands over to state.originals
HandsOver(c) ==
    \/ ~patched
    \/ ~options.enabled
    \/ /\ c.m = "renderToken"
       /\ ~(options.stripHeadingPrefixes /\ c.tok.type = "heading")

\* every stored original is the method of the host
OriginalsTrue == \A m \in Methods : originals[m] = "original"

\* C30 as the specification states it: the originals stay the methods of
\* the host, and every call of a patched method runs the original exactly
\* once.
C30_OriginalOncePerCall ==
    /\ stateKeys # {} => OriginalsTrue
    /\ last.op \in {"render", "setText"} => last.runs = 1
    /\ last.op = "render" /\ last.call.m # "" => last.callRuns = 1

\* C30: after any number of session starts and /render-md invocations, on a
\* fresh process or on a state an earlier load left under the old key or
\* under both keys, a patched prototype has a state, every stored original
\* is the method of the host, and no call runs an original more than once:
\* render and setText run theirs exactly once, renderToken and
\* renderListItem exactly once when they hand over and not at all when they
\* render a stripped heading or the list item themselves.
C30_OriginalsKept ==
    /\ patched => stateKeys # {}
    /\ stateKeys # {} => OriginalsTrue
    /\ last.op \in {"render", "setText"} => last.runs = 1
    /\ last.op = "render" /\ last.call.m # "" =>
           last.callRuns = IF HandsOver(last.call) THEN 1 ELSE 0

\* the patch is applied again on a state found under the old key only,
\* with the prototype already patched
C30_OldKeyMigrated ==
    /\ last.op \in {"session_start", "command"}
    /\ last.keysBefore = {"old"}
    /\ patched
    /\ revision >= 2
    /\ stateKeys = StateKeys
    /\ OriginalsTrue

----------------------------------------------------------------------------
(* Invalidation *)

\* the last step was a render through the patched prototype
PatchedRender == last.op = "render" /\ patched

\* the render found the revision changed, changed the text by unwrapping
\* or installed the wrappers
MustInvalidate == last.stale \/ last.changed \/ last.installs > 0

\* the output the render returned was computed under the current revision
\* from the text the instance has
OutputCurrent ==
    /\ cache[last.inst].has
    /\ ~cache[last.inst].older
    /\ cache[last.inst].text = inst[last.inst].text

\* C31 as the specification states it: a render that detects a stale
\* revision, unwraps or installs wrappers invalidates before the original
\* render runs, and no render returns output cached under an older
\* revision or an older text.
C31_NeverStaleOutput ==
    PatchedRender =>
        /\ MustInvalidate => last.invalidations >= 1 /\ ~last.hit
        /\ OutputCurrent

\* C31: a render through the patched prototype that detects a stale
\* revision, changes the text by unwrapping or installs the theme wrappers
\* calls instance.invalidate() before the original render runs, which then
\* computes the output anew; and while the patch is enabled the output a
\* render returns was computed under the current revision from the current
\* text of the instance.
C31_InvalidatedBeforeRender ==
    PatchedRender =>
        /\ MustInvalidate => last.invalidations >= 1 /\ ~last.hit
        /\ options.enabled => OutputCurrent

\* a render of an instance that holds output cached under an older
\* revision finds the revision changed and computes the output anew
C31_StaleCacheDropped ==
    /\ PatchedRender
    /\ last.stale
    /\ last.hadCache
    /\ last.invalidations >= 1
    /\ ~last.hit
    /\ revision >= 2
    /\ OutputCurrent

====
